---- MODULE Spec2Model ----
(***************************************************************************)
(* A model of the AWS Walled Garden mock proxy: ProxyServer                *)
(* (src/src/proxyServer.ts), MockManager (src/src/mockManager.ts) and      *)
(* ConfigValidator.                                                        *)
(*                                                                         *)
(* Strings that the code inspects (hostnames, URLs, tunnel bytes) are      *)
(* sequences of one-character strings, so that split, includes, indexOf    *)
(* and the regular expressions are computed as the code computes them.     *)
(* "CR" and "LF" stand for the bytes \r and \n.  Strings that the code     *)
(* only stores and hands on (object contents, content types, service       *)
(* keys) are TLA+ strings.                                                 *)
(***************************************************************************)
EXTENDS Integers, Sequences, FiniteSets, TLC

VARIABLES
    server,      \* ProxyServer.server: 0 (null) or the id of an http.Server
    servers,     \* every http.Server created so far: id -> [st, conns]
    config,      \* ProxyServer.config: Null or a catalog
    env,         \* process.env: [HTTP_PROXY, HTTPS_PROXY], "unset" or a URL
    portTaken,   \* TRUE while another process holds the proxy port
    pcalls,      \* log of start()/stop() calls on the proxy and their outcome
    now,         \* the wall clock read by Date.now()
    reqs,        \* plain proxied requests: id -> request state
    served,      \* the plain requests answered so far, in order of completion
    tunnel,      \* the session state of a CONNECT tunnel
    relay,       \* the state of a plain request relayed to its origin
    mgrConfig,   \* MockManager.config
    enabled,     \* MockManager.enabled
    file,        \* the configuration file on disk
    workspace,   \* TRUE when a workspace folder is open
    mcalls       \* log of enable()/disable()/reloadConfig() calls

vars == <<server, servers, config, env, portTaken, pcalls, now, reqs, served, tunnel,
          relay, mgrConfig, enabled, file, workspace, mcalls>>

proxyVars == <<server, servers, config, env, portTaken, pcalls>>
mgrVars == <<mgrConfig, enabled, file, workspace, mcalls>>

(***************************************************************************)
(* Bounds of the model.                                                    *)
(***************************************************************************)
MaxReqs == 1
MaxClock == 1
MaxChunks == 3
MaxOriginChunks == 2
MaxCalls == 4
MaxConns == 1
MaxServed == 2

(***************************************************************************)
(* String helpers over sequences of characters.                            *)
(***************************************************************************)
\* s.startsWith(p)
StartsWith(s, p) == Len(p) <= Len(s) /\ SubSeq(s, 1, Len(p)) = p

\* s.endsWith(p)
EndsWith(s, p) == Len(p) <= Len(s) /\ SubSeq(s, Len(s) - Len(p) + 1, Len(s)) = p

\* the 1-based positions at which p occurs in s
Occurrences(s, p) == {i \in 1..(Len(s) - Len(p) + 1) : SubSeq(s, i, i + Len(p) - 1) = p}

\* s.includes(p)
Includes(s, p) == Occurrences(s, p) # {}

\* s.indexOf(p): 0-based position of the first occurrence, -1 when none
IndexOf(s, p) ==
    IF Occurrences(s, p) = {} THEN -1
    ELSE (CHOOSE i \in Occurrences(s, p) : \A j \in Occurrences(s, p) : i <= j) - 1

\* s.split(c) for a one-character separator c: the sequence of pieces
RECURSIVE Split(_, _)
Split(s, c) ==
    IF IndexOf(s, <<c>>) = -1 THEN <<s>>
    ELSE <<SubSeq(s, 1, IndexOf(s, <<c>>))>>
         \o Split(SubSeq(s, IndexOf(s, <<c>>) + 2, Len(s)), c)

\* pieces.filter(p => p): drops the empty pieces
RECURSIVE FilterNonEmpty(_)
FilterNonEmpty(pieces) ==
    IF pieces = <<>> THEN <<>>
    ELSE (IF Head(pieces) = <<>> THEN <<>> ELSE <<Head(pieces)>>)
         \o FilterNonEmpty(Tail(pieces))

\* pieces.join(c)
RECURSIVE Join(_, _)
Join(pieces, c) ==
    IF pieces = <<>> THEN <<>>
    ELSE IF Len(pieces) = 1 THEN pieces[1]
    ELSE pieces[1] \o <<c>> \o Join(Tail(pieces), c)

\* concatenation of a sequence of chunks
RECURSIVE Flatten(_)
Flatten(chunks) ==
    IF chunks = <<>> THEN <<>> ELSE Head(chunks) \o Flatten(Tail(chunks))

(***************************************************************************)
(* Literals.                                                               *)
(***************************************************************************)
sS3 == <<"s", "3">>
sDynamodb == <<"d", "y", "n", "a", "m", "o", "d", "b">>
sLambda == <<"l", "a", "m", "b", "d", "a">>
sSqs == <<"s", "q", "s">>
sSns == <<"s", "n", "s">>
sEc2 == <<"e", "c", "2">>
sExample == <<"e", "x", "a", "m", "p", "l", "e">>
sDotCom == <<".", "c", "o", "m">>
sDotAmazonawsCom == <<".", "a", "m", "a", "z", "o", "n", "a", "w", "s">> \o sDotCom
sDotAwsAmazonCom == <<".", "a", "w", "s", ".", "a", "m", "a", "z", "o", "n">> \o sDotCom
sHttpScheme == <<"h", "t", "t", "p", ":", "/", "/">>
sHttpColon == <<"h", "t", "t", "p", ":">>
sPort443 == <<":", "4", "4", "3">>
sGET == <<"G", "E", "T">>
sPUT == <<"P", "U", "T">>
sPOST == <<"P", "O", "S", "T">>
sCRLF == <<"CR", "LF">>
sCRLFCRLF == <<"CR", "LF", "CR", "LF">>
sGetItem == <<"G", "e", "t", "I", "t", "e", "m">>
sPutItem == <<"P", "u", "t", "I", "t", "e", "m">>
sQuery == <<"Q", "u", "e", "r", "y">>
sInvoke == <<"I", "n", "v", "o", "k", "e">>
sUnknown == <<"u", "n", "k", "n", "o", "w", "n">>

s3Host == sS3 \o sDotAmazonawsCom
dynamodbHost == sDynamodb \o sDotAmazonawsCom
lambdaHost == sLambda \o sDotAmazonawsCom
sqsHost == sSqs \o sDotAmazonawsCom
ec2Host == sEc2 \o sDotAmazonawsCom
exampleHost == sExample \o sDotCom

(***************************************************************************)
(* Optional values (undefined, or the result of a?.b): <<>> or <<v>>.      *)
(***************************************************************************)
None == <<>>
Some(v) == <<v>>

\* o?.[k] for an optional object o
Get(o, k) == IF o = None THEN None ELSE IF k \in DOMAIN o[1] THEN Some(o[1][k]) ELSE None

\* ProxyServer.config / MockManager.config when null
NullConfig == [isNull |-> TRUE]

(***************************************************************************)
(* RequestClassifier.                                                      *)
(***************************************************************************)
\* mutant of CleanHostname: the port is kept
CleanHostnameKeepsPort(hostname) == hostname

\* hostname.split(':')[0]
CleanHostname(hostname) == Split(hostname, ":")[1]

\* awsPatterns.some(pattern => pattern.test(cleanHostname))
MatchesAwsPattern(h) ==
    \/ EndsWith(h, sDotAmazonawsCom)
    \/ EndsWith(h, sDotAwsAmazonCom)
    \/ StartsWith(h, sS3 \o <<".">>)
    \/ StartsWith(h, sDynamodb \o <<".">>)
    \/ StartsWith(h, sLambda \o <<".">>)
    \/ StartsWith(h, sSqs \o <<".">>)
    \/ StartsWith(h, sSns \o <<".">>)
    \/ EndsWith(h, sS3 \o sDotAmazonawsCom)
    \/ EndsWith(h, sDynamodb \o sDotAmazonawsCom)
    \/ EndsWith(h, sLambda \o sDotAmazonawsCom)

isAwsRequest(hostname) == MatchesAwsPattern(CleanHostname(hostname))

\* identifyService with the tests for 's3' and 'dynamodb' in the other order
identifyServiceDynamodbFirst(hostname) ==
    IF Includes(hostname, sDynamodb) THEN "dynamodb"
    ELSE IF Includes(hostname, sS3) THEN "s3"
    ELSE IF Includes(hostname, sLambda) THEN "lambda"
    ELSE IF Includes(hostname, sSqs) THEN "sqs"
    ELSE IF Includes(hostname, sSns) THEN "sns"
    ELSE ""

\* the service key, or "" for null
identifyService(hostname) ==
    IF Includes(hostname, sS3) THEN "s3"
    ELSE IF Includes(hostname, sDynamodb) THEN "dynamodb"
    ELSE IF Includes(hostname, sLambda) THEN "lambda"
    ELSE IF Includes(hostname, sSqs) THEN "sqs"
    ELSE IF Includes(hostname, sSns) THEN "sns"
    ELSE ""

(***************************************************************************)
(* A request is [method, url, target, host, body]: target is the           *)
(* x-amz-target header (None when absent), host the Host header, body the  *)
(* payload the client sends ("" when there is none).                       *)
(***************************************************************************)
\* url.parse(req.url).hostname || '': the authority of an absolute http URL
\* up to the first ':' or '/', and '' for a URL in origin form (a path)
UrlHostname(u) ==
    IF StartsWith(u, sHttpScheme)
    THEN Split(Split(SubSeq(u, Len(sHttpScheme) + 1, Len(u)), "/")[1], ":")[1]
    ELSE <<>>

\* pieces[i] || 'unknown' for the 0-based index i
PieceOrUnknown(pieces, i) ==
    IF i + 1 <= Len(pieces) /\ pieces[i + 1] # <<>> THEN pieces[i + 1] ELSE sUnknown

extractOperation(req) ==
    IF req.target # None /\ req.target[1] # <<>>
    THEN LET parts == Split(req.target[1], ".")
         IN  IF parts[Len(parts)] # <<>> THEN parts[Len(parts)] ELSE sUnknown
    ELSE req.method \o <<"_">> \o PieceOrUnknown(Split(req.url, "/"), 1)

(***************************************************************************)
(* MockResponseGenerator.  A MockResponse is [statusCode, headers, body]   *)
(* with headers optional and body [t, k, v]: t is "str" for a string body  *)
(* and "obj" for a structured one.                                         *)
(***************************************************************************)
StrBody(v) == [t |-> "str", k |-> "content", v |-> v]

\* A scalar of the catalog is written as its JSON token: the numerals below
\* are JSON numbers, every other token is a JSON string.
JsonNumbers == {"42"}

\* typeof v for a scalar of the catalog
TypeOf(v) == IF v \in JsonNumbers THEN "number" ELSE "string"

\* objectConfig.content as a MockResponse body: whatever value the catalog
\* holds, a string or not
ContentBody(v) ==
    [t |-> IF TypeOf(v) = "string" THEN "str" ELSE "num", k |-> "content", v |-> v]
ObjBody(k, v) == [t |-> "obj", k |-> k, v |-> v]

S3PathParts(req) == FilterNonEmpty(Split(req.url, "/"))
S3Bucket(req) == IF S3PathParts(req) = <<>> THEN <<>> ELSE S3PathParts(req)[1]
S3Key(req) == IF S3PathParts(req) = <<>> THEN <<>> ELSE Join(Tail(S3PathParts(req)), "/")

\* mutant of generateS3Response: the ETag does not depend on the time
generateS3ResponseFixedETag(operation, serviceConfig, req, t) ==
    LET bucket == S3Bucket(req)
        key == S3Key(req)
        bucketConfig == Get(Get(Some(serviceConfig), "buckets"), bucket)
        objectConfig == Get(Get(bucketConfig, "objects"), key)
        contentType == Get(Get(objectConfig, "metadata"), "ContentType")
    IN  IF req.method = sGET /\ bucket # <<>> /\ key # <<>> /\ objectConfig # None
        THEN [statusCode |-> 200,
              headers |-> Some([ContentType |-> IF contentType # None THEN contentType[1]
                                                ELSE "application/octet-stream",
                                ETag |-> 0,
                                LastModified |-> t]),
              body |-> ContentBody(objectConfig[1].content)]
        ELSE IF req.method = sPUT /\ bucket # <<>> /\ key # <<>>
        THEN [statusCode |-> 200, headers |-> Some([ETag |-> 0]), body |-> StrBody("")]
        ELSE [statusCode |-> 404, headers |-> None, body |-> ObjBody("error", "Not Found")]

\* mutant of generateS3Response: a GET of an object the catalog does not
\* hold is answered as if an upload had been stored under its key
generateS3ResponseEchoesPut(operation, serviceConfig, req, t) ==
    LET bucket == S3Bucket(req)
        key == S3Key(req)
        bucketConfig == Get(Get(Some(serviceConfig), "buckets"), bucket)
        objectConfig == Get(Get(bucketConfig, "objects"), key)
    IN  IF req.method = sGET /\ bucket # <<>> /\ key # <<>>
        THEN [statusCode |-> 200,
              headers |-> Some([ContentType |-> "application/octet-stream",
                                ETag |-> t, LastModified |-> t]),
              body |-> StrBody(IF objectConfig # None THEN objectConfig[1].content ELSE "U")]
        ELSE IF req.method = sPUT /\ bucket # <<>> /\ key # <<>>
        THEN [statusCode |-> 200, headers |-> Some([ETag |-> t]), body |-> StrBody("")]
        ELSE [statusCode |-> 404, headers |-> None, body |-> ObjBody("error", "Not Found")]

generateS3Response(operation, serviceConfig, req, t) ==
    LET bucket == S3Bucket(req)
        key == S3Key(req)
        bucketConfig == Get(Get(Some(serviceConfig), "buckets"), bucket)
        objectConfig == Get(Get(bucketConfig, "objects"), key)
        contentType == Get(Get(objectConfig, "metadata"), "ContentType")
    IN  IF req.method = sGET /\ bucket # <<>> /\ key # <<>> /\ objectConfig # None
        THEN [statusCode |-> 200,
              headers |-> Some([ContentType |-> IF contentType # None THEN contentType[1]
                                                ELSE "application/octet-stream",
                                ETag |-> t,
                                LastModified |-> t]),
              body |-> ContentBody(objectConfig[1].content)]
        ELSE IF req.method = sPUT /\ bucket # <<>> /\ key # <<>>
        THEN [statusCode |-> 200, headers |-> Some([ETag |-> t]), body |-> StrBody("")]
        ELSE [statusCode |-> 404, headers |-> None, body |-> ObjBody("error", "Not Found")]

\* mutant of generateDynamoDBResponse: GetItem reads the first table the
\* catalog holds, whatever its name
generateDynamoDBResponseAnyTable(operation, serviceConfig, req) ==
    LET tables == Get(Some(serviceConfig), "tables")
        first == IF tables = None \/ DOMAIN tables[1] = {} THEN None
                 ELSE Some(tables[1][CHOOSE n \in DOMAIN tables[1] : TRUE])
        items == Get(first, "items")
    IN  IF Includes(operation, sGetItem)
        THEN [statusCode |-> 200, headers |-> None,
              body |-> ObjBody("Item", IF items # None /\ items[1] # <<>>
                                       THEN items[1][1] ELSE "{}")]
        ELSE IF Includes(operation, sPutItem)
        THEN [statusCode |-> 200, headers |-> None, body |-> ObjBody("empty", "{}")]
        ELSE [statusCode |-> 400, headers |-> None,
              body |-> ObjBody("error", "Unsupported operation")]

generateDynamoDBResponse(operation, serviceConfig, req) ==
    LET items == Get(Get(Get(Some(serviceConfig), "tables"), "Users"), "items")
    IN  IF Includes(operation, sGetItem)
        THEN [statusCode |-> 200, headers |-> None,
              body |-> ObjBody("Item", IF items # None /\ items[1] # <<>>
                                       THEN items[1][1] ELSE "{}")]
        ELSE IF Includes(operation, sPutItem)
        THEN [statusCode |-> 200, headers |-> None, body |-> ObjBody("empty", "{}")]
        ELSE [statusCode |-> 400, headers |-> None,
              body |-> ObjBody("error", "Unsupported operation")]

extractFunctionName(req) == "myFunction"

\* mutant of generateLambdaResponse: a function without a response is
\* answered with an empty payload
generateLambdaResponseEmptyPayload(operation, serviceConfig, req) ==
    LET functionConfig == Get(Get(Some(serviceConfig), "functions"), extractFunctionName(req))
        response == Get(functionConfig, "response")
    IN  IF Includes(operation, sInvoke)
        THEN [statusCode |-> 200, headers |-> Some([ContentType |-> "application/json"]),
              body |-> ObjBody("response", IF response # None THEN response[1] ELSE "{}")]
        ELSE [statusCode |-> 404, headers |-> None,
              body |-> ObjBody("error", "Function not found")]

generateLambdaResponse(operation, serviceConfig, req) ==
    LET functionConfig == Get(Get(Some(serviceConfig), "functions"), extractFunctionName(req))
        response == Get(functionConfig, "response")
    IN  IF Includes(operation, sInvoke) /\ response # None
        THEN [statusCode |-> 200, headers |-> Some([ContentType |-> "application/json"]),
              body |-> ObjBody("response", response[1])]
        ELSE [statusCode |-> 404, headers |-> None,
              body |-> ObjBody("error", "Function not found")]

generateServiceResponse(service, operation, serviceConfig, req, t) ==
    CASE service = "s3" -> generateS3Response(operation, serviceConfig, req, t)
      [] service = "dynamodb" -> generateDynamoDBResponse(operation, serviceConfig, req)
      [] service = "lambda" -> generateLambdaResponse(operation, serviceConfig, req)
      [] OTHER -> [statusCode |-> 501, headers |-> None,
                   body |-> ObjBody("error", "Service not implemented")]

\* the MockResponse, or None for null; cfg is this.config when the call runs
generateMockResponse(cfg, req, hostname, t) ==
    IF cfg = NullConfig \/ "services" \notin DOMAIN cfg THEN None
    ELSE LET service == identifyService(hostname)
         IN  IF service = "" \/ service \notin DOMAIN cfg.services THEN None
             ELSE Some(generateServiceResponse(service, extractOperation(req),
                                               cfg.services[service], req, t))

\* header values with a character outside [\t\x20-\x7e\x80-\xff], which
\* res.writeHead rejects (ERR_INVALID_CHAR) before it stores any header
InvalidHeaderValues == {"text/plain\n"}

\* res.writeHead(mockResponse.statusCode, mockResponse.headers || ...) throws
WriteHeadThrows(mockResponse) ==
    /\ mockResponse.headers # None
    /\ "ContentType" \in DOMAIN mockResponse.headers[1]
    /\ mockResponse.headers[1].ContentType \in InvalidHeaderValues

\* res.end(mockResponse.body) throws (ERR_INVALID_ARG_TYPE): the body is
\* neither an object, which is stringified, nor a string
EndThrows(mockResponse) == mockResponse.body.t \notin {"obj", "str"}

\* what sendMockResponse writes when neither call throws: status, headers and
\* the encoded body
sendMockResponse(mockResponse) ==
    [kind |-> "mock",
     statusCode |-> mockResponse.statusCode,
     headers |-> IF mockResponse.headers # None THEN mockResponse.headers[1]
                 ELSE [ContentType |-> "application/json"],
     body |-> [enc |-> IF mockResponse.body.t = "obj" THEN "json" ELSE "raw",
               k |-> mockResponse.body.k,
               v |-> mockResponse.body.v]]

(***************************************************************************)
(* Catalogs (MockConfig values) and the requests drawn as inputs.          *)
(***************************************************************************)
sB == <<"b">>
sK == <<"k">>
sZ == <<"z">>
sVersion10 == <<"1", ".", "0">>

\* bucket b holds object k with a content type; Users has one item
CatalogA ==
    [version |-> sVersion10,
     services |->
        [s3 |-> [buckets |-> (sB :> [objects |->
                    (sK :> [content |-> "X", metadata |-> [ContentType |-> "text/plain"]])])],
         dynamodb |-> [tables |-> [Users |-> [items |-> <<"user1">>]]],
         lambda |-> [functions |-> [myFunction |-> [response |-> "resp1"],
                                    other |-> [response |-> "resp2"]]]]]

\* bucket b holds object k without metadata; no dynamodb and no lambda entry
CatalogB ==
    [version |-> sVersion10,
     services |->
        [s3 |-> [buckets |-> (sB :> [objects |-> (sK :> [content |-> "Y"])])],
         sqs |-> [queues |-> [q |-> <<>>]]]]

\* a bucket named "http:" holding the objects "s3.amazonaws.com/b/k" (a
\* string), "s3.amazonaws.com/b/z" (a number as content) and
\* "s3.amazonaws.com" (a content type with a line feed in it); a DynamoDB
\* table that is not named Users
CatalogUrlKeyed ==
    [version |-> sVersion10,
     services |->
        [s3 |-> [buckets |-> (sHttpColon :> [objects |->
                    ((s3Host \o <<"/">> \o sB \o <<"/">> \o sK) :> [content |-> "Z"]
                     @@ (s3Host \o <<"/">> \o sB \o <<"/">> \o sZ) :> [content |-> "42"]
                     @@ s3Host :> [content |-> "W",
                                   metadata |-> [ContentType |-> "text/plain\n"]])])],
         dynamodb |-> [tables |-> [Orders |-> [items |-> <<"order1">>]]]]]

Catalogs == {CatalogA, CatalogB, CatalogUrlKeyed}

PlainHosts == {s3Host, dynamodbHost, lambdaHost, sqsHost, ec2Host, exampleHost}
PlainPaths == {<<"/">> \o sB \o <<"/">> \o sK, <<"/">> \o sB \o <<"/">> \o sZ, <<"/">>}

\* absolute-form URLs, as a client sends them to a forward proxy
AbsoluteUrl(host, path) == sHttpScheme \o host \o path

Requests ==
    {[method |-> sGET, url |-> AbsoluteUrl(s3Host, p), target |-> None, host |-> s3Host, body |-> ""] :
        p \in PlainPaths}
    \cup {[method |-> sGET, url |-> AbsoluteUrl(h, <<"/">>), target |-> None, host |-> h, body |-> ""] :
        h \in PlainHosts \ {s3Host}}
    \cup {[method |-> sPUT, url |-> AbsoluteUrl(s3Host, p), target |-> None, host |-> s3Host, body |-> "U"] :
        p \in PlainPaths \ {<<"/">>}}
    \cup {[method |-> sPOST, url |-> AbsoluteUrl(dynamodbHost, <<"/">>),
           target |-> Some(<<"D", ".">> \o t), host |-> dynamodbHost, body |-> ""] :
        t \in {sGetItem, sPutItem, sQuery}}
    \cup {[method |-> sPOST, url |-> AbsoluteUrl(lambdaHost, <<"/">>),
           target |-> Some(<<"L", ".">> \o sInvoke), host |-> lambdaHost, body |-> ""],
          [method |-> sGET, url |-> <<"/">> \o sB \o <<"/">> \o sK,
           target |-> None, host |-> s3Host, body |-> ""]}

\* the Invoke call of the Lambda API for the function named f:
\* POST /2015-03-31/functions/<f>/invocations
FunctionNames == {"myFunction", "other", "ghost"}

FunctionChars(f) ==
    CASE f = "myFunction" -> <<"m", "y", "F", "u", "n", "c", "t", "i", "o", "n">>
      [] f = "other" -> <<"o", "t", "h", "e", "r">>
      [] f = "ghost" -> <<"g", "h", "o", "s", "t">>

InvocationPath(f) ==
    <<"/", "2", "0", "1", "5", "-", "0", "3", "-", "3", "1", "/", "f", "u", "n", "c", "t", "i", "o", "n", "s", "/">>
    \o FunctionChars(f) \o <<"/", "i", "n", "v", "o", "c", "a", "t", "i", "o", "n", "s">>

\* Invoke calls: as the AWS SDK sends them (no x-amz-target header), and
\* with an x-amz-target header that names the operation
LambdaRequests ==
    {[method |-> sPOST, url |-> AbsoluteUrl(lambdaHost, InvocationPath(f)),
      target |-> t, host |-> lambdaHost, body |-> ""] :
        f \in FunctionNames, t \in {None, Some(<<"L", ".">> \o sInvoke)}}

(***************************************************************************)
(* ProxyServer lifecycle: start, stop, updateConfig.                       *)
(***************************************************************************)
ProxyPort == 3128

Unset == [unset |-> TRUE]
ProxyUrl == [scheme |-> "http", host |-> "localhost", port |-> ProxyPort]

Listening(id) == id \in DOMAIN servers /\ servers[id].st = "listening"
SomeListening == \E id \in DOMAIN servers : Listening(id)
PendingCalls(log) == {i \in DOMAIN log : log[i].st = "pending"}

\* a server takes connections once its 'listening' callback has run
Accepting ==
    \E id \in DOMAIN servers :
        /\ Listening(id)
        /\ ~\E i \in PendingCalls(pcalls) : pcalls[i].op = "start" /\ pcalls[i].srv = id

\* start(config): the catalog is stored, a new http.Server is created and
\* listen(port) binds at once; its outcome is reported by a later callback
start(c) ==
    /\ config' = c
    /\ servers' = Append(servers,
                    [st |-> IF portTaken \/ SomeListening THEN "failed" ELSE "listening",
                     conns |-> 0])
    /\ server' = Len(servers) + 1
    /\ pcalls' = Append(pcalls, [op |-> "start", st |-> "pending", srv |-> Len(servers) + 1])
    /\ UNCHANGED <<env, portTaken>>

\* the callback of listen(): sets the environment variables and resolves
ListenCallbackBody(i) ==
    /\ env' = [HTTP_PROXY |-> ProxyUrl, HTTPS_PROXY |-> ProxyUrl]
    /\ pcalls' = [pcalls EXCEPT ![i].st = "acked"]
    /\ UNCHANGED <<server, servers, config, portTaken>>

ListenCallback(i) ==
    /\ i \in PendingCalls(pcalls)
    /\ pcalls[i].op = "start"
    /\ Listening(pcalls[i].srv)
    /\ ListenCallbackBody(i)

\* the 'error' listener of the server: rejects
ErrorCallback(i) ==
    /\ i \in PendingCalls(pcalls)
    /\ pcalls[i].op = "start"
    /\ servers[pcalls[i].srv].st = "failed"
    /\ pcalls' = [pcalls EXCEPT ![i].st = "rejected"]
    /\ UNCHANGED <<server, servers, config, env, portTaken>>

\* mutant of stop: no test of this.server, so that close() is called on null
\* and throws when there is no server
stopWithoutGuard ==
    IF server # 0
    THEN /\ servers' = [servers EXCEPT ![server].st =
                            IF @ = "listening" THEN "closed" ELSE @]
         /\ pcalls' = Append(pcalls, [op |-> "stop", st |-> "pending", srv |-> server])
         /\ UNCHANGED <<server, config, env, portTaken>>
    ELSE /\ pcalls' = Append(pcalls, [op |-> "stop", st |-> "threw", srv |-> 0])
         /\ UNCHANGED <<server, servers, config, env, portTaken>>

\* stop(): closes the server when there is one, and resolves at once otherwise
stop ==
    IF server # 0
    THEN /\ servers' = [servers EXCEPT ![server].st =
                            IF @ = "listening" THEN "closed" ELSE @]
         /\ pcalls' = Append(pcalls, [op |-> "stop", st |-> "pending", srv |-> server])
         /\ UNCHANGED <<server, config, env, portTaken>>
    ELSE /\ pcalls' = Append(pcalls, [op |-> "stop", st |-> "acked", srv |-> 0])
         /\ UNCHANGED <<server, servers, config, env, portTaken>>

\* the callback of server.close(): runs once the server has no handle and no
\* connection left
CloseCallbackBody(i) ==
    /\ env' = [HTTP_PROXY |-> Unset, HTTPS_PROXY |-> Unset]
    /\ server' = 0
    /\ pcalls' = [pcalls EXCEPT ![i].st = "acked"]
    /\ UNCHANGED <<servers, config, portTaken>>

CloseCallback(i) ==
    /\ i \in PendingCalls(pcalls)
    /\ pcalls[i].op = "stop"
    /\ servers[pcalls[i].srv].st # "listening"
    /\ servers[pcalls[i].srv].conns = 0
    /\ CloseCallbackBody(i)

updateConfig(c) ==
    /\ config' = c
    /\ UNCHANGED <<server, servers, env, portTaken, pcalls>>

\* a client connects to a listening server / a connection ends
ConnOpen(id) ==
    /\ Listening(id)
    /\ servers[id].conns < MaxConns
    /\ servers' = [servers EXCEPT ![id].conns = @ + 1]
    /\ UNCHANGED <<server, config, env, portTaken, pcalls>>

ConnClose(id) ==
    /\ id \in DOMAIN servers
    /\ servers[id].conns > 0
    /\ servers' = [servers EXCEPT ![id].conns = @ - 1]
    /\ UNCHANGED <<server, config, env, portTaken, pcalls>>

\* another process binds or releases the proxy port
PortToggle ==
    /\ portTaken \/ ~SomeListening
    /\ portTaken' = ~portTaken
    /\ UNCHANGED <<server, servers, config, env, pcalls>>

\* Date.now() advances
Tick ==
    /\ now < MaxClock
    /\ now' = now + 1

InitProxy ==
    /\ server = 0
    /\ servers = <<>>
    /\ config = NullConfig
    /\ env = [HTTP_PROXY |-> Unset, HTTPS_PROXY |-> Unset]
    /\ portTaken = FALSE
    /\ pcalls = <<>>

InitManager ==
    /\ mgrConfig = NullConfig
    /\ enabled = FALSE
    /\ mcalls = <<>>

Idle == [st |-> "idle"]

Init ==
    /\ InitProxy
    /\ InitManager
    /\ file = [st |-> "missing"]
    /\ workspace = TRUE
    /\ now = 0
    /\ reqs = [r \in 1..MaxReqs |-> Idle]
    /\ served = <<>>
    /\ tunnel = Idle
    /\ relay = Idle

(***************************************************************************)
(* PlainRequestRouter: handleRequest.  The part up to the await runs in    *)
(* one turn of the event loop, the part after it in a later one.           *)
(***************************************************************************)
Relay == [kind |-> "relay"]

\* the catch block of handleRequest with no header stored yet: 500 and a JSON
\* error body
InternalError ==
    [kind |-> "error", statusCode |-> 500,
     headers |-> [ContentType |-> "application/json"],
     body |-> [enc |-> "json", k |-> "error", v |-> "Internal proxy error"]]

\* the catch block of handleRequest after res.writeHead has stored the
\* header: its own res.writeHead(500) throws ERR_HTTP_HEADERS_SENT, the
\* promise of handleRequest rejects with nobody awaiting it, and nothing is
\* sent to the client
UnhandledRejection == [kind |-> "unhandled"]

\* lines 198-212 for a mock response m: sendMockResponse inside the try, and
\* the catch block when res.writeHead or res.end throws
Respond(m) ==
    IF WriteHeadThrows(m) THEN InternalError
    ELSE IF EndThrows(m) THEN UnhandledRejection
    ELSE sendMockResponse(m)

\* handleRequest up to `await this.generateMockResponse(req, hostname)`
handleRequestBody(r, req) ==
    LET hostname == UrlHostname(req.url)
    IN  reqs' = [reqs EXCEPT ![r] =
            IF isAwsRequest(hostname)
            THEN [st |-> "awaiting", req |-> req, snap |-> config, t0 |-> now,
                  mock |-> generateMockResponse(config, req, hostname, now)]
            ELSE [st |-> "done", req |-> req, snap |-> config, t0 |-> now,
                  mock |-> None, out |-> Relay]]

handleRequest(r, req) ==
    /\ reqs[r].st = "idle"
    /\ \A q \in 1..(r - 1) : reqs[q].st # "idle"
    /\ Accepting
    /\ handleRequestBody(r, req)

\* mutant of ResumeRequestBody: the response is generated after the await,
\* from the catalog that is active then
ResumeRequestBodyLateRead(r) ==
    reqs' = [reqs EXCEPT ![r] =
        [st |-> "done", req |-> @.req, snap |-> @.snap, t0 |-> @.t0, mock |-> @.mock,
         out |-> IF @.mock # None
                 THEN Respond(generateServiceResponse(
                        identifyService(UrlHostname(@.req.url)), extractOperation(@.req),
                        config.services[identifyService(UrlHostname(@.req.url))],
                        @.req, @.t0))
                 ELSE Relay]]

\* handleRequest after the await: sendMockResponse, or proxyToRealAws
ResumeRequestBody(r) ==
    reqs' = [reqs EXCEPT ![r] =
        [st |-> "done", req |-> @.req, snap |-> @.snap, t0 |-> @.t0, mock |-> @.mock,
         out |-> IF @.mock # None THEN Respond(@.mock[1]) ELSE Relay]]

ResumeRequest(r) ==
    /\ reqs[r].st = "awaiting"
    /\ ResumeRequestBody(r)

PlainStart ==
    /\ pcalls = <<>>
    /\ \E c \in Catalogs : start(c)
    /\ UNCHANGED <<now, reqs, served, relay, tunnel, mgrVars>>

PlainListen ==
    /\ \E i \in DOMAIN pcalls : ListenCallback(i)
    /\ UNCHANGED <<now, reqs, served, relay, tunnel, mgrVars>>

PlainUpdateConfig ==
    /\ \E c \in Catalogs : updateConfig(c)
    /\ UNCHANGED <<now, reqs, served, relay, tunnel, mgrVars>>

PlainTick == Tick /\ UNCHANGED <<proxyVars, reqs, served, relay, tunnel, mgrVars>>

PlainHandle ==
    /\ \E r \in 1..MaxReqs, req \in Requests : handleRequest(r, req)
    /\ UNCHANGED <<proxyVars, now, served, relay, tunnel, mgrVars>>

PlainResume ==
    /\ \E r \in 1..MaxReqs : ResumeRequest(r)
    /\ UNCHANGED <<proxyVars, now, served, relay, tunnel, mgrVars>>

PlainNext ==
    \/ PlainStart
    \/ PlainListen
    \/ PlainUpdateConfig
    \/ PlainTick
    \/ PlainHandle
    \/ PlainResume

PlainSpec == Init /\ [][PlainNext]_vars

(***************************************************************************)
(* Claims about the plain request path (checked under PlainSpec).          *)
(***************************************************************************)
Done(r) == reqs[r].st = "done"

ObjectNames == {sB, sK, sZ}
BucketKeyPath(b, k) == <<"/">> \o b \o <<"/">> \o k

\* services.s3.buckets[b].objects[k] of a catalog, as an optional value
ConfiguredObject(cfg, b, k) ==
    Get(Get(Get(Get(Get(Get(Some(cfg), "services"), "s3"), "buckets"), b), "objects"), k)

\* what a request is answered with when it is served entirely from catalog c
OutcomeFrom(c, req, t) ==
    LET hostname == UrlHostname(req.url)
        m == generateMockResponse(c, req, hostname, t)
    IN  IF isAwsRequest(hostname) /\ m # None THEN Respond(m[1]) ELSE Relay

\* C1: a plain GET of http://<recognized S3 host>/<bucket>/<key>, with that
\* bucket and key configured in the active catalog, is answered by the proxy
\* with 200, the configured content as body and Content-Type taken from
\* metadata.ContentType when present, and is not relayed to the origin.
C1_GetConfiguredObjectServed ==
    \A r \in 1..MaxReqs : \A b \in ObjectNames, k \in ObjectNames :
        LET obj == ConfiguredObject(reqs[r].snap, b, k)
            ct == Get(Get(obj, "metadata"), "ContentType")
        IN  (/\ Done(r)
             /\ reqs[r].req.method = sGET
             /\ reqs[r].req.url = AbsoluteUrl(s3Host, BucketKeyPath(b, k))
             /\ obj # None)
            => /\ reqs[r].out.kind = "mock"
               /\ reqs[r].out.statusCode = 200
               /\ reqs[r].out.body = [enc |-> "raw", k |-> "content", v |-> obj[1].content]
               /\ (ct # None => reqs[r].out.headers.ContentType = ct[1])

\* the case of C1: such a GET has been answered
C1_Witness ==
    \E r \in 1..MaxReqs :
        /\ Done(r)
        /\ reqs[r].req.method = sGET
        /\ reqs[r].req.url = AbsoluteUrl(s3Host, BucketKeyPath(sB, sK))
        /\ ConfiguredObject(reqs[r].snap, sB, sK) # None
        /\ reqs[r].out.kind = "mock"
        /\ reqs[r].out.statusCode = 404

\* the generator found no configured mock for the request
NoConfiguredMock(r) ==
    \/ reqs[r].mock = None
    \/ reqs[r].mock[1].statusCode \in {400, 404, 501}

\* C5: a plain request to a recognized AWS host that matches no configured
\* mock (an absent S3 key, an operation the generator does not handle) is
\* forwarded to the real endpoint and not answered by the proxy itself.
C5_UnmatchedRequestIsRelayed ==
    \A r \in 1..MaxReqs :
        (Done(r) /\ isAwsRequest(UrlHostname(reqs[r].req.url)) /\ NoConfiguredMock(r))
            => reqs[r].out = Relay

\* the case of C5: an unmatched request to a recognized host was answered
C5_Witness ==
    \E r \in 1..MaxReqs :
        /\ Done(r)
        /\ isAwsRequest(UrlHostname(reqs[r].req.url))
        /\ reqs[r].req.url = AbsoluteUrl(s3Host, BucketKeyPath(sB, sZ))
        /\ reqs[r].mock # None
        /\ reqs[r].out.kind = "mock"
        /\ reqs[r].out.statusCode = 404

\* C6: whatever updateConfig calls interleave with a request in flight, the
\* request is answered entirely from the catalog that was active when its
\* handler ran, never partly from a catalog installed afterwards.
C6_AnsweredFromOneCatalog ==
    \A r \in 1..MaxReqs :
        Done(r) => reqs[r].out = OutcomeFrom(reqs[r].snap, reqs[r].req, reqs[r].t0)

\* the case of C6: the catalog was swapped while the request was in flight,
\* and the new catalog would have answered the request differently
C6_Witness ==
    \E r \in 1..MaxReqs :
        /\ Done(r)
        /\ reqs[r].out.kind = "mock"
        /\ reqs[r].snap # config
        /\ config # NullConfig
        /\ OutcomeFrom(config, reqs[r].req, reqs[r].t0) # reqs[r].out

\* an exception was raised while the request was handled
ExceptionRaised(r) ==
    /\ reqs[r].mock # None
    /\ (WriteHeadThrows(reqs[r].mock[1]) \/ EndThrows(reqs[r].mock[1]))

\* C11: every exception raised while a plain request is handled, also while
\* the mock response is being written, is caught by handleRequest and answered
\* with status 500 and a JSON error body; no rejection is left unhandled.
C11_ExceptionsAnsweredWith500 ==
    \A r \in 1..MaxReqs :
        Done(r) =>
            /\ reqs[r].out # UnhandledRejection
            /\ (ExceptionRaised(r) => reqs[r].out = InternalError)

\* the case of C11: res.end threw after res.writeHead(200) had stored the
\* header, and the request ended with an unhandled rejection
C11_Witness ==
    \E r \in 1..MaxReqs :
        /\ Done(r)
        /\ reqs[r].mock # None
        /\ ~WriteHeadThrows(reqs[r].mock[1])
        /\ EndThrows(reqs[r].mock[1])
        /\ reqs[r].out = UnhandledRejection

\* generateMockResponse returns null for request r: no catalog (or one
\* without services), no service named by the host, or a service the catalog
\* does not configure
NoMockProduced(r) ==
    LET hostname == UrlHostname(reqs[r].req.url)
        cfg == reqs[r].snap
    IN  \/ cfg = NullConfig
        \/ "services" \notin DOMAIN cfg
        \/ identifyService(hostname) = ""
        \/ identifyService(hostname) \notin DOMAIN cfg.services

\* the relay is started for request r exactly when its host is unrecognized
\* or no mock was produced
RelayExactlyWhenNoMock ==
    \A r \in 1..MaxReqs :
        Done(r) =>
            (reqs[r].out = Relay
                <=> (~isAwsRequest(UrlHostname(reqs[r].req.url)) \/ NoMockProduced(r)))

\* C20: every plain proxied request is answered by exactly one of a mock
\* response, the relay to the origin and the 500 error, and the relay is the
\* outcome exactly when the host is unrecognized or no mock was produced.
C20_ExactlyOneOutcome ==
    /\ RelayExactlyWhenNoMock
    /\ \A r \in 1..MaxReqs :
          Done(r) => reqs[r].out.kind \in {"mock", "relay", "error"}

\* the case of C20: a request to a recognized host, for which a mock was
\* produced, has been handled to the end with none of the three outcomes
C20_Witness ==
    \E r \in 1..MaxReqs :
        /\ Done(r)
        /\ isAwsRequest(UrlHostname(reqs[r].req.url))
        /\ ~NoMockProduced(r)
        /\ reqs[r].out.kind \notin {"mock", "relay", "error"}

\* the path segments of the resource a URL names: for an absolute URL what
\* follows the authority, for a URL in origin form the URL itself
PathSegments(u) ==
    IF StartsWith(u, sHttpScheme)
    THEN FilterNonEmpty(Tail(Split(SubSeq(u, Len(sHttpScheme) + 1, Len(u)), "/")))
    ELSE FilterNonEmpty(Split(u, "/"))

\* the operation C29 states for a request
StatedOperation(req) ==
    IF req.target # None
    THEN LET parts == Split(req.target[1], ".") IN parts[Len(parts)]
    ELSE req.method \o <<"_">> \o PathSegments(req.url)[1]

\* the plain router has passed request r to extractOperation
OperationExtracted(r) ==
    /\ reqs[r].st \in {"awaiting", "done"}
    /\ reqs[r].mock # None

\* C29: for every request the plain router passes to the operation
\* extractor, the operation is the final dot-delimited segment of the
\* x-amz-target header when that header is present, and otherwise
\* '<method>_<first path segment of the requested resource>'.
C29_OperationFromTargetOrPath ==
    \A r \in 1..MaxReqs :
        (OperationExtracted(r)
            /\ (reqs[r].req.target = None => PathSegments(reqs[r].req.url) # <<>>))
        => extractOperation(reqs[r].req) = StatedOperation(reqs[r].req)

\* the case of C29: a GET of /b/k on a recognized host, without the header,
\* was passed to the extractor, which returned 'GET_unknown'
C29_Witness ==
    \E r \in 1..MaxReqs :
        /\ OperationExtracted(r)
        /\ reqs[r].req.method = sGET
        /\ reqs[r].req.target = None
        /\ reqs[r].req.url = AbsoluteUrl(s3Host, BucketKeyPath(sB, sK))
        /\ extractOperation(reqs[r].req) = sGET \o <<"_">> \o sUnknown

\* with the header present the operation is its final segment
OperationFromTarget ==
    \A r \in 1..MaxReqs :
        (OperationExtracted(r) /\ reqs[r].req.target # None)
        => extractOperation(reqs[r].req) = StatedOperation(reqs[r].req)

\* the service names in the order C30 gives them, and their characters
ServiceOrder == <<"s3", "dynamodb", "lambda", "sqs", "sns">>

ServiceChars(service) ==
    CASE service = "s3" -> sS3
      [] service = "dynamodb" -> sDynamodb
      [] service = "lambda" -> sLambda
      [] service = "sqs" -> sSqs
      [] service = "sns" -> sSns

\* hostnames naming one service, several services (in either order of
\* occurrence), or none; recognized hosts and unrecognized ones
ServiceHostnames ==
    PlainHosts
    \cup {sSns \o sDotAmazonawsCom,
          sDynamodb \o <<".">> \o s3Host,
          sS3 \o <<".">> \o dynamodbHost,
          sSns \o <<".">> \o sqsHost,
          sSqs \o <<".">> \o lambdaHost,
          sLambda \o <<".">> \o sDynamodb \o <<".">> \o exampleHost,
          sSns \o <<".">> \o exampleHost,
          sExample \o sS3 \o sDotCom}

\* the positions in ServiceOrder of the names that occur in the hostname
ServicesOccurring(hostname) ==
    {i \in DOMAIN ServiceOrder :
        \E k \in 1..Len(hostname) :
            /\ k + Len(ServiceChars(ServiceOrder[i])) - 1 <= Len(hostname)
            /\ SubSeq(hostname, k, k + Len(ServiceChars(ServiceOrder[i])) - 1)
                    = ServiceChars(ServiceOrder[i])}

\* the service C30 states for a hostname ("" for 'unrecognized')
StatedService(hostname) ==
    IF ServicesOccurring(hostname) = {} THEN ""
    ELSE ServiceOrder[CHOOSE i \in ServicesOccurring(hostname) :
                        \A j \in ServicesOccurring(hostname) : i <= j]

\* identifyService returns the stated service for every hostname, whether
\* the classifier recognizes the hostname or not
FirstServiceInPriorityOrder ==
    \A h \in ServiceHostnames : identifyService(h) = StatedService(h)

\* C30: service identification returns, for every hostname, the first of
\* 's3', 'dynamodb', 'lambda', 'sqs', 'sns' (in that priority order) that
\* occurs in the hostname and 'unrecognized' when none occurs, whether or not
\* the host was recognized; a request to a recognized host in which none
\* occurs gets no mock and is relayed, and a mock is only ever produced for
\* the configuration of the stated service.
C30_ServiceByPriorityOrder ==
    /\ FirstServiceInPriorityOrder
    /\ \A r \in 1..MaxReqs :
          LET hostname == UrlHostname(reqs[r].req.url)
          IN  /\ (Done(r) /\ isAwsRequest(hostname) /\ StatedService(hostname) = "")
                    => (reqs[r].mock = None /\ reqs[r].out = Relay)
              /\ (reqs[r].st \in {"awaiting", "done"} /\ reqs[r].mock # None)
                    => /\ StatedService(hostname) # ""
                       /\ StatedService(hostname) \in DOMAIN reqs[r].snap.services
                       /\ reqs[r].mock = Some(generateServiceResponse(
                              StatedService(hostname), extractOperation(reqs[r].req),
                              reqs[r].snap.services[StatedService(hostname)],
                              reqs[r].req, reqs[r].t0))

\* the case of C30: with a catalog loaded, a request to ec2.amazonaws.com,
\* a recognized host naming no service, was handled to the end and relayed
C30_Witness ==
    \E r \in 1..MaxReqs :
        /\ Done(r)
        /\ UrlHostname(reqs[r].req.url) = ec2Host
        /\ isAwsRequest(ec2Host)
        /\ identifyService(ec2Host) = ""
        /\ reqs[r].snap \in Catalogs
        /\ reqs[r].out = Relay

\* the S3 generator has been run for request r
S3Generated(r) ==
    /\ reqs[r].st \in {"awaiting", "done"}
    /\ reqs[r].mock # None
    /\ identifyService(UrlHostname(reqs[r].req.url)) = "s3"

\* C13: for a GET whose request path is /<b>/<k> the S3 generator returns
\* 200 with the configured content as body when the catalog configures
\* object k in bucket b, and 404 when it does not (the key or the bucket is
\* not configured).
C13_S3GetByBucketAndKey ==
    \A r \in 1..MaxReqs : \A b \in ObjectNames, k \in ObjectNames :
        LET obj == ConfiguredObject(reqs[r].snap, b, k)
        IN  (/\ S3Generated(r)
             /\ reqs[r].req.method = sGET
             /\ reqs[r].req.url = AbsoluteUrl(s3Host, BucketKeyPath(b, k)))
            => IF obj # None
               THEN /\ reqs[r].mock[1].statusCode = 200
                    /\ reqs[r].mock[1].body.v = obj[1].content
               ELSE reqs[r].mock[1].statusCode = 404

\* the case of C13: the generator ran for a GET of /b/k with b and k
\* configured, and for that request it returned 404
C13_Witness ==
    \E r \in 1..MaxReqs :
        /\ S3Generated(r)
        /\ reqs[r].req.method = sGET
        /\ reqs[r].req.url = AbsoluteUrl(s3Host, BucketKeyPath(sB, sK))
        /\ ConfiguredObject(reqs[r].snap, sB, sK) # None
        /\ reqs[r].mock[1].statusCode = 404

\* the DynamoDB generator has been run for request r
DynamoGenerated(r) ==
    /\ reqs[r].st \in {"awaiting", "done"}
    /\ reqs[r].mock # None
    /\ identifyService(UrlHostname(reqs[r].req.url)) = "dynamodb"

\* services.dynamodb.tables.Users.items of a catalog, as an optional value
UsersItems(cfg) ==
    Get(Get(Get(Get(Get(Some(cfg), "services"), "dynamodb"), "tables"), "Users"), "items")

SerialRequests == {req \in Requests : req.host = s3Host} \cup LambdaRequests

\* res.end has run for request r: the exchange is over and logged
Finish(r) ==
    /\ reqs[r].st = "done"
    /\ served' = Append(served, reqs[r])
    /\ reqs' = [reqs EXCEPT ![r] = Idle]

SerialStart ==
    /\ pcalls = <<>>
    /\ \E c \in Catalogs : start(c)
    /\ UNCHANGED <<now, reqs, served, relay, tunnel, mgrVars>>

SerialListen ==
    /\ \E i \in DOMAIN pcalls : ListenCallback(i)
    /\ UNCHANGED <<now, reqs, served, relay, tunnel, mgrVars>>

SerialTick == Tick /\ UNCHANGED <<proxyVars, reqs, served, relay, tunnel, mgrVars>>

SerialHandle ==
    /\ Len(served) < MaxServed
    /\ \E req \in SerialRequests : handleRequest(1, req)
    /\ UNCHANGED <<proxyVars, now, served, relay, tunnel, mgrVars>>

SerialResume ==
    /\ ResumeRequest(1)
    /\ UNCHANGED <<proxyVars, now, served, relay, tunnel, mgrVars>>

SerialFinish ==
    /\ Finish(1)
    /\ UNCHANGED <<proxyVars, now, tunnel, relay, mgrVars>>

SerialNext ==
    \/ SerialStart
    \/ SerialListen
    \/ SerialTick
    \/ SerialHandle
    \/ SerialResume
    \/ SerialFinish

SerialSpec == Init /\ [][SerialNext]_vars

(***************************************************************************)
(* Claims about sequences of S3 requests (checked under SerialSpec).       *)
(***************************************************************************)
\* the S3 generator answered the i-th request served
S3Served(i) ==
    /\ served[i].mock # None
    /\ identifyService(UrlHostname(served[i].req.url)) = "s3"

\* the object the catalog holds under the bucket and key that the generator
\* derives from the request
S3Lookup(cfg, req) == ConfiguredObject(cfg, S3Bucket(req), S3Key(req))

\* C14: S3 PUT stores nothing.  Every PUT is acknowledged with 200 and an
\* empty body; the catalog every request is served from is the one the proxy
\* was started with; every GET gets what the catalog alone determines, 404
\* when the catalog holds nothing for it, whatever PUTs came before; a GET
\* that follows a PUT to the same URL never returns the PUT's body.
C14_PutStoresNothing ==
    /\ \A i \in DOMAIN served : served[i].snap = config
    /\ \A i \in DOMAIN served :
          (S3Served(i) /\ served[i].req.method = sPUT) =>
              served[i].out =
                  [kind |-> "mock", statusCode |-> 200, headers |-> [ETag |-> served[i].t0],
                   body |-> [enc |-> "raw", k |-> "content", v |-> ""]]
    /\ \A j \in DOMAIN served :
          (S3Served(j) /\ served[j].req.method = sGET) =>
              LET obj == S3Lookup(config, served[j].req)
              IN  /\ (obj = None =>
                        /\ served[j].out.kind = "mock"
                        /\ served[j].out.statusCode = 404)
                  /\ (obj # None =>
                        /\ served[j].mock[1].statusCode = 200
                        /\ served[j].mock[1].body.v = obj[1].content)
                  /\ \A i \in 1..(j - 1) :
                        (served[i].req.method = sPUT
                            /\ served[i].req.url = served[j].req.url)
                        => served[j].mock[1].body.v # served[i].req.body

\* the case of C14: a PUT to a key the catalog does not hold was
\* acknowledged, and the GET of the same URL that followed returned 404
C14_Witness ==
    /\ Len(served) >= 2
    /\ S3Served(1) /\ S3Served(2)
    /\ served[1].req.method = sPUT
    /\ served[1].out.statusCode = 200
    /\ served[2].req.method = sGET
    /\ served[2].req.url = served[1].req.url
    /\ S3Lookup(config, served[2].req) = None
    /\ served[2].out.statusCode = 404

\* requests i and i + 1 are consecutive GETs of one configured object
ConsecutiveGets(i) ==
    /\ i + 1 \in DOMAIN served
    /\ S3Served(i) /\ S3Served(i + 1)
    /\ served[i].req.method = sGET
    /\ served[i + 1].req = served[i].req
    /\ served[i].out.kind = "mock" /\ served[i].out.statusCode = 200
    /\ served[i + 1].out.kind = "mock" /\ served[i + 1].out.statusCode = 200

\* C15 as stated: two consecutive GETs of the same configured S3 object
\* return different ETag values and the same body.
C15_ConsecutiveETagsDiffer ==
    \A i \in DOMAIN served :
        ConsecutiveGets(i) =>
            /\ served[i].out.headers.ETag # served[i + 1].out.headers.ETag
            /\ served[i].out.body = served[i + 1].out.body

\* C15, amended: two consecutive GETs of the same configured S3 object
\* return the same body, and each ETag is the clock reading (Date.now(), in
\* milliseconds) taken when the response was generated: the two ETags differ
\* exactly when the clock advanced between the two GETs.
C15_ETagIsClockReading ==
    \A i \in DOMAIN served :
        ConsecutiveGets(i) =>
            /\ served[i].out.body = served[i + 1].out.body
            /\ served[i].out.headers.ETag = served[i].t0
            /\ served[i + 1].out.headers.ETag = served[i + 1].t0
            /\ (served[i].out.headers.ETag # served[i + 1].out.headers.ETag
                  <=> served[i].t0 < served[i + 1].t0)

\* the case of C15: two consecutive GETs of one configured object, the clock
\* having advanced in between, with different ETags
C15_Witness ==
    \E i \in DOMAIN served :
        /\ ConsecutiveGets(i)
        /\ served[i].t0 < served[i + 1].t0
        /\ served[i].out.headers.ETag # served[i + 1].out.headers.ETag

\* the Lambda generator answered the i-th request served
LambdaServed(i) ==
    /\ served[i].mock # None
    /\ identifyService(UrlHostname(served[i].req.url)) = "lambda"

\* services.lambda.functions[f].response of a catalog, as an optional value
FunctionResponse(cfg, f) ==
    Get(Get(Get(Get(Get(Some(cfg), "services"), "lambda"), "functions"), f), "response")

\* C17: an Invoke of function f (an operation containing 'Invoke' on a
\* request that names f) returns 200, Content-Type application/json and the
\* response configured for f, for every function name f configured with a
\* response; an Invoke of a function that is not configured, and every
\* operation that does not contain 'Invoke', returns 404.
C17_LambdaInvokeByName ==
    \A i \in DOMAIN served : \A f \in FunctionNames :
        (LambdaServed(i)
            /\ served[i].req.url = AbsoluteUrl(lambdaHost, InvocationPath(f)))
        => LET m == served[i].mock[1]
               response == FunctionResponse(served[i].snap, f)
           IN  IF Includes(extractOperation(served[i].req), sInvoke) /\ response # None
               THEN /\ m.statusCode = 200
                    /\ m.headers = Some([ContentType |-> "application/json"])
                    /\ m.body.v = response[1]
               ELSE m.statusCode = 404

\* the case of C17: function 'other' is configured with its own response,
\* was invoked, and the response of 'myFunction' was returned
C17_Witness ==
    \E i \in DOMAIN served :
        /\ LambdaServed(i)
        /\ served[i].req.url = AbsoluteUrl(lambdaHost, InvocationPath("other"))
        /\ Includes(extractOperation(served[i].req), sInvoke)
        /\ FunctionResponse(served[i].snap, "other") = Some("resp2")
        /\ served[i].mock[1].statusCode = 200
        /\ served[i].mock[1].body.v = "resp1"

(***************************************************************************)
(* TunnelInterceptor: handleConnect, handleHttpsTunnel, establishTunnel.   *)
(* One CONNECT session is followed; a session's buffer and flag live in    *)
(* the closure of its own handleHttpsTunnel call and are shared with no    *)
(* other session.                                                          *)
(***************************************************************************)
bodyS3GetObject ==
    <<"{", "\"", "m", "e", "s", "s", "a", "g", "e", "\"", ":", "\"", "M", "o", "c", "k",
      " ", "S", "3", " ", "G", "e", "t", "O", "b", "j", "e", "c", "t", " ", "r", "e",
      "s", "p", "o", "n", "s", "e", "\"", "}">>

bodyDynamoItem ==
    <<"{", "\"", "I", "t", "e", "m", "\"", ":", "{", "\"", "i", "d", "\"", ":", "{",
      "\"", "S", "\"", ":", "\"", "u", "s", "e", "r", "1", "\"", "}", ",", "\"", "n",
      "a", "m", "e", "\"", ":", "{", "\"", "S", "\"", ":", "\"", "M", "o", "c", "k", " ",
      "U", "s", "e", "r", "\"", "}", "}", "}">>

bodyLambdaPayload ==
    <<"{", "\"", "P", "a", "y", "l", "o", "a", "d", "\"", ":", "\"", "e", "y", "J", "y",
      "Z", "X", "N", "1", "b", "H", "Q", "i", "O", "i", "J", "N", "b", "2", "N", "r",
      "I", "E", "x", "h", "b", "W", "J", "k", "Y", "S", "B", "y", "Z", "X", "N", "w",
      "b", "2", "5", "z", "Z", "S", "J", "9", "\"", "}">>

bodyNotMocked ==
    <<"{", "\"", "e", "r", "r", "o", "r", "\"", ":", "\"", "S", "e", "r", "v", "i", "c",
      "e", " ", "n", "o", "t", " ", "m", "o", "c", "k", "e", "d", "\"", "}">>

\* mutant of generateMockHttpResponse: the length announced is that of the
\* request line
generateMockHttpResponseLengthOfRequest(hostname, requestLine) ==
    LET responseBody ==
            IF Includes(hostname, sS3) /\ Includes(requestLine, sGET) THEN bodyS3GetObject
            ELSE IF Includes(hostname, sDynamodb) /\ Includes(requestLine, sPOST)
                 THEN bodyDynamoItem
            ELSE IF Includes(hostname, sLambda) /\ Includes(requestLine, sPOST)
                 THEN bodyLambdaPayload
            ELSE bodyNotMocked
    IN  [kind |-> "synth", status |-> 200, contentType |-> "application/x-amz-json-1.0",
         contentLength |-> Len(requestLine), body |-> responseBody]

\* mutant of generateMockHttpResponse: a GET on an S3 host is answered with
\* the content the active catalog configures for b/k
generateMockHttpResponseFromCatalog(hostname, requestLine) ==
    LET obj == Get(Get(Get(Get(Get(Get(Some(config), "services"), "s3"), "buckets"), sB),
                       "objects"), sK)
        responseBody ==
            IF Includes(hostname, sS3) /\ Includes(requestLine, sGET)
            THEN IF obj # None THEN <<obj[1].content>> ELSE bodyS3GetObject
            ELSE IF Includes(hostname, sDynamodb) /\ Includes(requestLine, sPOST)
                 THEN bodyDynamoItem
            ELSE IF Includes(hostname, sLambda) /\ Includes(requestLine, sPOST)
                 THEN bodyLambdaPayload
            ELSE bodyNotMocked
    IN  [kind |-> "synth", status |-> 200, contentType |-> "application/x-amz-json-1.0",
         contentLength |-> Len(responseBody), body |-> responseBody]

\* the text generateMockHttpResponse returns, as its parts: the status line,
\* the two headers (Content-Length is responseBody.length, the number of
\* UTF-16 code units of the body), the blank line and the body
generateMockHttpResponse(hostname, requestLine) ==
    LET responseBody ==
            IF Includes(hostname, sS3) /\ Includes(requestLine, sGET) THEN bodyS3GetObject
            ELSE IF Includes(hostname, sDynamodb) /\ Includes(requestLine, sPOST)
                 THEN bodyDynamoItem
            ELSE IF Includes(hostname, sLambda) /\ Includes(requestLine, sPOST)
                 THEN bodyLambdaPayload
            ELSE bodyNotMocked
    IN  [kind |-> "synth", status |-> 200, contentType |-> "application/x-amz-json-1.0",
         contentLength |-> Len(responseBody), body |-> responseBody]

\* the line 'HTTP/1.1 200 Connection Established' followed by a blank line
ConnectionEstablished == [kind |-> "established"]
OriginBytes(chunk) == [kind |-> "bytes", data |-> chunk]

\* buffer.slice(0, headerEnd).toString().split('\r\n')[0]
RequestLine(buffer) ==
    LET requestStr == SubSeq(buffer, 1, IndexOf(buffer, sCRLFCRLF))
    IN  IF IndexOf(requestStr, sCRLF) = -1 THEN requestStr
        ELSE SubSeq(requestStr, 1, IndexOf(requestStr, sCRLF))

\* a port above 65535
sPort99999 == <<":", "9", "9", "9", "9", "9">>

ConnectHosts ==
    {s3Host \o sPort443, dynamodbHost \o sPort443, lambdaHost \o sPort443,
     ec2Host \o sPort443, exampleHost \o sPort443, exampleHost,
     exampleHost \o sPort99999}

\* the value of a decimal digit
DigitValue(c) ==
    CASE c = "0" -> 0 [] c = "1" -> 1 [] c = "2" -> 2 [] c = "3" -> 3 [] c = "4" -> 4
      [] c = "5" -> 5 [] c = "6" -> 6 [] c = "7" -> 7 [] c = "8" -> 8 [] c = "9" -> 9
      [] OTHER -> -1

\* parseInt(s) of an unsigned numeral: the value of the leading digits, and
\* -1 for NaN (no leading digit, or s undefined, written <<>>)
RECURSIVE ParseDigits(_, _)
ParseDigits(s, acc) ==
    IF s = <<>> \/ DigitValue(Head(s)) = -1 THEN acc
    ELSE ParseDigits(Tail(s), 10 * acc + DigitValue(Head(s)))

ParseInt(s) == IF s = <<>> \/ DigitValue(Head(s)) = -1 THEN -1 ELSE ParseDigits(s, 0)

\* parseInt(port) || 443 for [host, port] = hostname.split(':')
OutboundPort(hostname) ==
    LET parts == Split(hostname, ":")
        n == IF Len(parts) >= 2 THEN ParseInt(parts[2]) ELSE -1
    IN  IF n = -1 \/ n = 0 THEN 443 ELSE n

\* createConnection throws ERR_SOCKET_BAD_PORT before it returns a socket
CreateConnectionThrows(hostname) == OutboundPort(hostname) > 65535

ConnectHeads == {<<>>, sGET \o sCRLFCRLF, sPOST \o sCRLF \o <<"CR">>}

ClientChunks ==
    {sGET \o sCRLFCRLF, sPOST \o sCRLF, sCRLF, sGET \o sCRLF \o <<"CR">>, <<"LF">>,
     <<"x">>, sPOST \o sCRLFCRLF \o sGET \o sCRLFCRLF}

\* what a client sends through a passthrough tunnel, and what an origin answers
PassthroughChunks == {<<"x">>, sGET \o sCRLFCRLF}
OriginChunks == {<<"y">>, <<"H", "T", "T", "P">> \o sCRLFCRLF}

\* handleHttpsTunnel: answers the CONNECT itself and listens for data
handleHttpsTunnel(hostname, head) ==
    tunnel' = [st |-> "intercepted", host |-> hostname, head |-> head,
               buffer |-> head, expecting |-> TRUE, sent |-> <<>>, queue |-> <<>>,
               toClient |-> <<ConnectionEstablished>>, toOrigin |-> <<>>,
               originSent |-> <<>>, timer |-> "off", established |-> FALSE,
               outbound |-> FALSE, clientEnded |-> FALSE, originEnded |-> FALSE,
               clientGone |-> FALSE]

\* establishTunnel: opens the outbound connection; nothing is written yet
establishTunnel(hostname, head) ==
    tunnel' = [st |-> "connecting", host |-> hostname, head |-> head,
               buffer |-> <<>>, expecting |-> FALSE, sent |-> <<>>, queue |-> <<>>,
               toClient |-> <<>>, toOrigin |-> <<>>,
               originSent |-> <<>>, timer |-> "off", established |-> FALSE,
               outbound |-> TRUE, clientEnded |-> FALSE, originEnded |-> FALSE,
               clientGone |-> FALSE]

\* the catch block of handleConnect: clientSocket.end(); nothing was written
\* and no outbound socket exists
ConnectCatch(hostname, head) ==
    tunnel' = [st |-> "failed", host |-> hostname, head |-> head,
               buffer |-> <<>>, expecting |-> FALSE, sent |-> <<>>, queue |-> <<>>,
               toClient |-> <<>>, toOrigin |-> <<>>,
               originSent |-> <<>>, timer |-> "off", established |-> FALSE,
               outbound |-> FALSE, clientEnded |-> TRUE, originEnded |-> FALSE,
               clientGone |-> FALSE]

\* mutant of handleConnectBody: no try/catch around the two handlers, so the
\* exception rejects the promise of handleConnect, which nobody awaits
handleConnectBodyNoCatch(hostname, head) ==
    IF isAwsRequest(hostname)
    THEN handleHttpsTunnel(hostname, head)
    ELSE IF CreateConnectionThrows(hostname)
    THEN tunnel' = [st |-> "unhandled", host |-> hostname, head |-> head,
               buffer |-> <<>>, expecting |-> FALSE, sent |-> <<>>, queue |-> <<>>,
               toClient |-> <<>>, toOrigin |-> <<>>,
               originSent |-> <<>>, timer |-> "off", established |-> FALSE,
               outbound |-> FALSE, clientEnded |-> FALSE, originEnded |-> FALSE,
               clientGone |-> FALSE]
    ELSE establishTunnel(hostname, head)

\* the try block of handleConnect and its catch block; establishTunnel runs
\* synchronously inside the try, and throws when createConnection does
\* mutant of handleConnectBody: a recognized host whose service the catalog
\* does not configure is tunnelled to its origin
handleConnectBodyRelaysUnconfigured(hostname, head) ==
    IF /\ isAwsRequest(hostname)
       /\ generateMockResponse(config, [method |-> sGET, url |-> <<"/">>, target |-> None,
                                         host |-> hostname, body |-> ""],
                                hostname, now) # None
    THEN handleHttpsTunnel(hostname, head)
    ELSE IF CreateConnectionThrows(hostname)
    THEN ConnectCatch(hostname, head)
    ELSE establishTunnel(hostname, head)

handleConnectBody(hostname, head) ==
    IF isAwsRequest(hostname)
    THEN handleHttpsTunnel(hostname, head)
    ELSE IF CreateConnectionThrows(hostname)
    THEN ConnectCatch(hostname, head)
    ELSE establishTunnel(hostname, head)

handleConnect(hostname, head) ==
    /\ tunnel.st = "idle"
    /\ Accepting
    /\ handleConnectBody(hostname, head)

\* mutant of onTunnelData: the flag is not cleared after the first head
onTunnelDataKeepsExpecting(chunk) ==
    LET buffer == tunnel.buffer \o chunk
    IN  IF IndexOf(buffer, sCRLFCRLF) # -1
        THEN tunnel' = [tunnel EXCEPT
                !.buffer = buffer,
                !.sent = Append(@, chunk),
                !.toClient = Append(@, generateMockHttpResponse(tunnel.host,
                                                                RequestLine(buffer))),
                !.timer = "armed"]
        ELSE tunnel' = [tunnel EXCEPT !.buffer = buffer, !.sent = Append(@, chunk)]

\* the 'data' listener of handleHttpsTunnel
onTunnelData(chunk) ==
    IF tunnel.expecting
    THEN LET buffer == tunnel.buffer \o chunk
         IN  IF IndexOf(buffer, sCRLFCRLF) # -1
             THEN tunnel' = [tunnel EXCEPT
                     !.buffer = buffer,
                     !.expecting = FALSE,
                     !.sent = Append(@, chunk),
                     !.toClient = Append(@, generateMockHttpResponse(tunnel.host,
                                                                     RequestLine(buffer))),
                     !.timer = "armed"]
             ELSE tunnel' = [tunnel EXCEPT !.buffer = buffer, !.sent = Append(@, chunk)]
    ELSE tunnel' = [tunnel EXCEPT !.sent = Append(@, chunk)]

\* the client sends a chunk on an intercepted tunnel
ClientData(chunk) ==
    /\ tunnel.st = "intercepted"
    /\ ~tunnel.clientGone
    /\ Len(tunnel.sent) < MaxChunks
    /\ onTunnelData(chunk)

\* the setTimeout callback: clientSocket.end()
TimerFire ==
    /\ tunnel.st = "intercepted"
    /\ tunnel.timer = "armed"
    /\ tunnel' = [tunnel EXCEPT !.timer = "fired", !.clientEnded = TRUE]

\* the client sends a chunk on a passthrough tunnel: it waits in the socket
\* until the pipe reads it
ClientSend(chunk) ==
    /\ tunnel.st \in {"connecting", "spliced"}
    /\ Len(tunnel.sent) < MaxChunks
    /\ tunnel' = [tunnel EXCEPT !.sent = Append(@, chunk), !.queue = Append(@, chunk)]

\* mutant of OriginConnectedBody: the bytes that came with the CONNECT are
\* not written to the origin
OriginConnectedBodyDropsHead ==
    tunnel' = [tunnel EXCEPT
        !.st = "spliced",
        !.established = TRUE,
        !.toClient = Append(@, ConnectionEstablished)]

\* the callback of createConnection
OriginConnectedBody ==
    tunnel' = [tunnel EXCEPT
        !.st = "spliced",
        !.established = TRUE,
        !.toClient = Append(@, ConnectionEstablished),
        !.toOrigin = Append(@, tunnel.head)]

OriginConnected ==
    /\ tunnel.st = "connecting"
    /\ OriginConnectedBody

\* clientSocket.pipe(serverSocket) forwards the next waiting chunk
PipeClientToOrigin ==
    /\ tunnel.st = "spliced"
    /\ tunnel.queue # <<>>
    /\ tunnel' = [tunnel EXCEPT !.toOrigin = Append(@, Head(tunnel.queue)),
                                !.queue = Tail(@)]

\* the origin sends a chunk; serverSocket.pipe(clientSocket) forwards it
OriginData(chunk) ==
    /\ tunnel.st = "spliced"
    /\ Len(tunnel.originSent) < MaxOriginChunks
    /\ tunnel' = [tunnel EXCEPT !.originSent = Append(@, chunk),
                                !.toClient = Append(@, OriginBytes(chunk))]

\* serverSocket 'error': clientSocket.end()
OriginError ==
    /\ tunnel.st \in {"connecting", "spliced"}
    /\ tunnel' = [tunnel EXCEPT !.st = "closed", !.clientEnded = TRUE]

\* clientSocket 'error': logged on an intercepted tunnel, serverSocket.end()
\* on a passthrough tunnel
ClientError ==
    /\ tunnel.st \in {"intercepted", "connecting", "spliced"}
    /\ ~tunnel.clientGone
    /\ tunnel' = IF tunnel.st = "intercepted"
                 THEN [tunnel EXCEPT !.clientGone = TRUE]
                 ELSE [tunnel EXCEPT !.st = "closed", !.clientGone = TRUE,
                                     !.originEnded = TRUE]

TunnelStart ==
    /\ pcalls = <<>>
    /\ \E c \in Catalogs : start(c)
    /\ UNCHANGED <<now, reqs, served, relay, tunnel, mgrVars>>

TunnelListen ==
    /\ \E i \in DOMAIN pcalls : ListenCallback(i)
    /\ UNCHANGED <<now, reqs, served, relay, tunnel, mgrVars>>

TunnelUpdateConfig ==
    /\ \E c \in Catalogs : updateConfig(c)
    /\ UNCHANGED <<now, reqs, served, relay, tunnel, mgrVars>>

TunnelConnect ==
    /\ \E h \in ConnectHosts, head \in ConnectHeads : handleConnect(h, head)
    /\ UNCHANGED <<proxyVars, now, reqs, served, relay, mgrVars>>

TunnelClientData ==
    /\ \E chunk \in ClientChunks : ClientData(chunk)
    /\ UNCHANGED <<proxyVars, now, reqs, served, relay, mgrVars>>

TunnelTimerFire == TimerFire /\ UNCHANGED <<proxyVars, now, reqs, served, relay, mgrVars>>

TunnelClientSend ==
    /\ \E chunk \in PassthroughChunks : ClientSend(chunk)
    /\ UNCHANGED <<proxyVars, now, reqs, served, relay, mgrVars>>

TunnelOriginConnected == OriginConnected /\ UNCHANGED <<proxyVars, now, reqs, served, relay, mgrVars>>

TunnelPipe == PipeClientToOrigin /\ UNCHANGED <<proxyVars, now, reqs, served, relay, mgrVars>>

TunnelOriginData ==
    /\ \E chunk \in OriginChunks : OriginData(chunk)
    /\ UNCHANGED <<proxyVars, now, reqs, served, relay, mgrVars>>

TunnelOriginError == OriginError /\ UNCHANGED <<proxyVars, now, reqs, served, relay, mgrVars>>

TunnelClientError == ClientError /\ UNCHANGED <<proxyVars, now, reqs, served, relay, mgrVars>>

TunnelNext ==
    \/ TunnelStart
    \/ TunnelListen
    \/ TunnelUpdateConfig
    \/ TunnelConnect
    \/ TunnelClientData
    \/ TunnelTimerFire
    \/ TunnelClientSend
    \/ TunnelOriginConnected
    \/ TunnelPipe
    \/ TunnelOriginData
    \/ TunnelOriginError
    \/ TunnelClientError

\* a timer that has been set fires: the event loop runs every due callback
TunnelSpec == Init /\ [][TunnelNext]_vars /\ WF_vars(TunnelTimerFire)

(***************************************************************************)
(* Claims about tunnels (checked under TunnelSpec).                        *)
(***************************************************************************)
Intercepted == tunnel.st = "intercepted"
Passthrough == tunnel.st \in {"connecting", "spliced", "closed"}

\* the synthesized responses written to the client so far
SynthResponses == SelectSeq(tunnel.toClient, LAMBDA w : w.kind = "synth")

\* every byte the client delivered, in arrival order: the bytes that came
\* with the CONNECT, then each later chunk
ArrivedBytes == tunnel.head \o Flatten(tunnel.sent)

\* the state invariant of C2
OneResponsePerTunnel ==
    Intercepted =>
        /\ Len(SynthResponses) <= 1
        /\ tunnel.toClient \in {<<ConnectionEstablished>>,
                                <<ConnectionEstablished>> \o SynthResponses}
        /\ (SynthResponses # <<>> =>
                SynthResponses[1] =
                    generateMockHttpResponse(tunnel.host, RequestLine(ArrivedBytes)))
        /\ (SynthResponses # <<>> <=> tunnel.timer \in {"armed", "fired"})
        /\ (tunnel.clientEnded <=> tunnel.timer = "fired")

\* C2: on an intercepted tunnel at most one synthesized response is ever
\* written, it answers the first complete request head and nothing that
\* arrives after it, and once it is written the client socket is closed
\* when the delay has elapsed (and only then).
C2_OneResponseThenClose ==
    /\ []OneResponsePerTunnel
    /\ ((Intercepted /\ SynthResponses # <<>>) ~> (Intercepted /\ tunnel.clientEnded))

\* the case of C2: bytes holding a second request head arrived after the
\* first head was answered, and the socket was closed
C2_Witness ==
    /\ Intercepted
    /\ Len(SynthResponses) = 1
    /\ tunnel.clientEnded
    /\ Cardinality(Occurrences(ArrivedBytes, sCRLFCRLF)) >= 2
    /\ Len(tunnel.sent) >= 2

\* C3: on an intercepted tunnel the synthesized response has been written
\* exactly when the bytes accumulated in arrival order (those delivered
\* with the CONNECT, then every later chunk) contain a double CRLF.
C3_ResponseWhenHeadComplete ==
    Intercepted => (SynthResponses # <<>> <=> Includes(ArrivedBytes, sCRLFCRLF))

\* the case of C3: the double CRLF was split across two chunks and answered
C3_Witness ==
    /\ Intercepted
    /\ SynthResponses # <<>>
    /\ \E i \in DOMAIN tunnel.sent :
         /\ i > 1
         /\ ~Includes(tunnel.head \o Flatten(SubSeq(tunnel.sent, 1, i - 1)), sCRLFCRLF)
         /\ ~Includes(tunnel.sent[i], sCRLFCRLF)
         /\ Includes(tunnel.head \o Flatten(SubSeq(tunnel.sent, 1, i)), sCRLFCRLF)

\* what a passthrough tunnel has done so far: the outbound connection is
\* opened, the client is sent the '200 Connection Established' line only once
\* that connection is established, the origin is sent exactly the client's
\* bytes (those that came with the CONNECT first, then the later ones in
\* order) and the client exactly the origin's bytes
Spliced ==
    /\ Passthrough
    /\ tunnel.outbound
    /\ (~tunnel.established => tunnel.toClient = <<>> /\ tunnel.toOrigin = <<>>)
    /\ (tunnel.established =>
          /\ tunnel.toClient = <<ConnectionEstablished>>
                \o [i \in DOMAIN tunnel.originSent |-> OriginBytes(tunnel.originSent[i])]
          /\ Flatten(tunnel.toOrigin) \o Flatten(tunnel.queue) = ArrivedBytes
          /\ tunnel.toOrigin = <<tunnel.head>>
                \o SubSeq(tunnel.sent, 1, Len(tunnel.toOrigin) - 1))

\* C4 as stated: every CONNECT to a host that matches no provider pattern
\* never gets a synthesized response, has its outbound connection opened and
\* is spliced as described above.
C4_PassthroughSpliceAnyPort ==
    (tunnel.st # "idle" /\ ~isAwsRequest(tunnel.host)) =>
        (SynthResponses = <<>> /\ Spliced)

\* C4, amended: a CONNECT to a host that matches no provider pattern never
\* gets a synthesized response; when the port of its target is a valid port
\* (an absent or unparsable port counts as 443) the outbound connection is
\* opened and the tunnel is spliced as described above; when the port is out
\* of range no outbound connection is opened, nothing is written to the
\* client and the client socket is closed.
C4_PassthroughSplice ==
    (tunnel.st # "idle" /\ ~isAwsRequest(tunnel.host)) =>
        /\ SynthResponses = <<>>
        /\ (~CreateConnectionThrows(tunnel.host) => Spliced)
        /\ (CreateConnectionThrows(tunnel.host) =>
              /\ ~tunnel.outbound
              /\ tunnel.toClient = <<>>
              /\ tunnel.clientEnded)

\* the case of C4: bytes came with the CONNECT, more followed (some before
\* the connection was established), the origin answered, all was forwarded
C4_Witness ==
    /\ tunnel.st = "spliced"
    /\ ~isAwsRequest(tunnel.host)
    /\ tunnel.head # <<>>
    /\ Len(tunnel.sent) >= 2
    /\ tunnel.queue = <<>>
    /\ Len(tunnel.originSent) >= 2

\* an exception was thrown while the CONNECT was handled: createConnection
\* threw inside establishTunnel (the classifier and the interception handler
\* have no statement that throws for any host or head)
ConnectThrew ==
    /\ tunnel.st # "idle"
    /\ ~isAwsRequest(tunnel.host)
    /\ CreateConnectionThrows(tunnel.host)

AsciiChars ==
    {"a", "b", "c", "d", "e", "f", "g", "h", "i", "j", "k", "l", "m", "n", "o", "p", "q",
     "r", "s", "t", "u", "v", "w", "x", "y", "z", "A", "B", "C", "D", "E", "F", "G", "H",
     "I", "J", "K", "L", "M", "N", "O", "P", "Q", "R", "S", "T", "U", "V", "W", "X", "Y",
     "Z", "0", "1", "2", "3", "4", "5", "6", "7", "8", "9", " ", "{", "}", "[", "]", ":",
     ",", ".", "\"", "/", "+", "=", "-", "_"}

\* the number of bytes of a text on the wire (UTF-8): one per ASCII
\* character, at least two for any other
RECURSIVE ByteLength(_)
ByteLength(text) ==
    IF text = <<>> THEN 0
    ELSE (IF Head(text) \in AsciiChars THEN 1 ELSE 2) + ByteLength(Tail(text))

\* C18: every synthesized response written onto an intercepted tunnel is a
\* status line, headers, a blank line and a body, and the value of its
\* Content-Length header is the exact number of bytes of the body, for every
\* hostname and request line.
C18_ContentLengthIsBodyLength ==
    Intercepted =>
        \A i \in DOMAIN SynthResponses :
            /\ SynthResponses[i].status = 200
            /\ SynthResponses[i].body # <<>>
            /\ SynthResponses[i].contentLength = ByteLength(SynthResponses[i].body)

\* the case of C18: a response was synthesized for a request line longer
\* than a bare method, on a host for which nothing is mocked
C18_Witness ==
    /\ Intercepted
    /\ SynthResponses # <<>>
    /\ SynthResponses[1].body = bodyNotMocked
    /\ SynthResponses[1].contentLength = 30
    /\ Len(RequestLine(ArrivedBytes)) > 4

\* the CONNECT targets on recognized hosts
RecognizedTargets ==
    {s3Host \o sPort443, dynamodbHost \o sPort443, lambdaHost \o sPort443,
     ec2Host \o sPort443}

TunnelBodies == {bodyS3GetObject, bodyDynamoItem, bodyLambdaPayload, bodyNotMocked}

Ports == {sPort443, sPort99999}

\* what the classifier and the URL parser make of 'h:p' and of h
PortIgnoredByClassifier ==
    \A h \in PlainHosts, p \in Ports :
        /\ isAwsRequest(h \o p) = isAwsRequest(h)
        /\ identifyService(h \o p) = identifyService(h)
        /\ UrlHostname(AbsoluteUrl(h \o p, <<"/">>)) = UrlHostname(AbsoluteUrl(h, <<"/">>))

\* C19: for every hostname h and port p, 'h:p' is classified as h is
\* (recognized or not, and the same service), on the plain path, where the
\* hostname is taken from the URL, and on the CONNECT path, where the tunnel
\* to 'h:p' is intercepted exactly when h is recognized and is answered with
\* the response synthesized for h.
C19_PortDoesNotChangeClassification ==
    /\ PortIgnoredByClassifier
    /\ \A h \in PlainHosts, p \in Ports :
          (tunnel.st # "idle" /\ tunnel.host = h \o p) =>
              /\ Intercepted <=> isAwsRequest(h)
              /\ \A i \in DOMAIN SynthResponses :
                    SynthResponses[i] = generateMockHttpResponse(h, RequestLine(ArrivedBytes))

\* the case of C19: a tunnel to a recognized host that no start-of-name
\* pattern matches, written with a port, was intercepted and answered
C19_Witness ==
    /\ Intercepted
    /\ tunnel.host = ec2Host \o sPort443
    /\ SynthResponses # <<>>

(***************************************************************************)
(* RelayFallback: proxyToRealAws.  One relayed exchange: the client's      *)
(* request is piped into the outbound request, the origin's response is    *)
(* piped into the client's response.                                       *)
(***************************************************************************)
OriginStatuses == {200, 404}

\* the requests relayed: those of the plain path, and an upload to a host
\* that is not recognized
Upload ==
    [method |-> sPOST, url |-> AbsoluteUrl(exampleHost, <<"/">>), target |-> None,
     host |-> exampleHost, body |-> "U"]

RelayRequests == Requests \cup {Upload}

\* what the client's response is given
ResponseHead(statusCode) == [kind |-> "head", statusCode |-> statusCode]
ProxyErrorResponse == [kind |-> "error", statusCode |-> 500, body |-> "Proxy error"]

\* proxyToRealAws: https.request(options, callback), the 'error' listener
\* and req.pipe(proxyReq)
proxyToRealAws(req) ==
    relay' = [st |-> "open", req |-> req, attempts |-> 1, reqEnded |-> FALSE,
              clientGone |-> FALSE, outbound |-> "open", headersSent |-> FALSE,
              toClient |-> <<>>, originSent |-> <<>>, resEnded |-> FALSE,
              failed |-> FALSE, uncaught |-> FALSE]

\* handleRequest reaches proxyToRealAws: the host is unrecognized or no mock
\* was produced
RelayBegin(req) ==
    /\ relay = Idle
    /\ Accepting
    /\ OutcomeFrom(config, req, now) = Relay
    /\ proxyToRealAws(req)

\* the client's request ends: req.pipe(proxyReq) calls proxyReq.end()
RequestEnd ==
    /\ relay.st = "open"
    /\ ~relay.reqEnded
    /\ ~relay.clientGone
    /\ relay' = [relay EXCEPT !.reqEnded = TRUE]

\* the client aborts, or its connection closes: nothing listens for it, on
\* req or on res, and a pipe ends its destination only on the source's 'end'
ClientAbort ==
    /\ relay.st = "open"
    /\ ~relay.clientGone
    /\ ~relay.resEnded
    /\ relay' = [relay EXCEPT !.clientGone = TRUE]

\* the callback of https.request: res.writeHead(proxyRes.statusCode || 200,
\* proxyRes.headers); proxyRes.pipe(res)
OriginResponseBody(statusCode) ==
    relay' = [relay EXCEPT !.headersSent = TRUE,
                           !.toClient = Append(@, ResponseHead(statusCode))]

\* the origin answers a request it has received completely
OriginResponse(statusCode) ==
    /\ relay.st = "open"
    /\ relay.outbound = "open"
    /\ relay.reqEnded
    /\ ~relay.headersSent
    /\ OriginResponseBody(statusCode)

\* the origin sends a chunk of its response; proxyRes.pipe(res) forwards it
OriginBody(chunk) ==
    /\ relay.st = "open"
    /\ relay.outbound = "open"
    /\ relay.headersSent
    /\ Len(relay.originSent) < MaxOriginChunks
    /\ relay' = [relay EXCEPT !.originSent = Append(@, chunk),
                              !.toClient = Append(@, OriginBytes(chunk))]

\* the origin's response ends: proxyRes.pipe(res) calls res.end()
OriginEnd ==
    /\ relay.st = "open"
    /\ relay.outbound = "open"
    /\ relay.headersSent
    /\ relay' = [relay EXCEPT !.outbound = "closed", !.resEnded = TRUE]

\* proxyReq 'error' (the connection cannot be opened, or it breaks):
\* res.writeHead(500); res.end('Proxy error').  Once the origin's header has
\* been forwarded, res.writeHead throws ERR_HTTP_HEADERS_SENT out of the
\* listener: nothing is written and res.end is not reached
OriginFailure ==
    /\ relay.st = "open"
    /\ relay.outbound = "open"
    /\ relay' = IF relay.headersSent
                THEN [relay EXCEPT !.outbound = "closed", !.failed = TRUE,
                                   !.uncaught = TRUE]
                ELSE [relay EXCEPT !.outbound = "closed", !.failed = TRUE,
                                   !.headersSent = TRUE,
                                   !.toClient = Append(@, ProxyErrorResponse),
                                   !.resEnded = TRUE]

RelayStart ==
    /\ pcalls = <<>>
    /\ \E c \in Catalogs : start(c)
    /\ UNCHANGED <<now, reqs, served, tunnel, relay, mgrVars>>

RelayListen ==
    /\ \E i \in DOMAIN pcalls : ListenCallback(i)
    /\ UNCHANGED <<now, reqs, served, tunnel, relay, mgrVars>>

RelayHandle ==
    /\ \E req \in RelayRequests : RelayBegin(req)
    /\ UNCHANGED <<proxyVars, now, reqs, served, tunnel, mgrVars>>

RelayRequestEnd == RequestEnd /\ UNCHANGED <<proxyVars, now, reqs, served, tunnel, mgrVars>>

RelayClientAbort == ClientAbort /\ UNCHANGED <<proxyVars, now, reqs, served, tunnel, mgrVars>>

RelayOriginResponse ==
    /\ \E statusCode \in OriginStatuses : OriginResponse(statusCode)
    /\ UNCHANGED <<proxyVars, now, reqs, served, tunnel, mgrVars>>

RelayOriginBody ==
    /\ \E chunk \in OriginChunks : OriginBody(chunk)
    /\ UNCHANGED <<proxyVars, now, reqs, served, tunnel, mgrVars>>

RelayOriginEnd == OriginEnd /\ UNCHANGED <<proxyVars, now, reqs, served, tunnel, mgrVars>>

RelayOriginFailure == OriginFailure /\ UNCHANGED <<proxyVars, now, reqs, served, tunnel, mgrVars>>

RelayNext ==
    \/ RelayStart
    \/ RelayListen
    \/ RelayHandle
    \/ RelayRequestEnd
    \/ RelayClientAbort
    \/ RelayOriginResponse
    \/ RelayOriginBody
    \/ RelayOriginEnd
    \/ RelayOriginFailure

\* an origin that has received a complete request answers it, and ends the
\* answer it has begun
RelaySpec ==
    /\ Init
    /\ [][RelayNext]_vars
    /\ WF_vars(RelayOriginResponse)
    /\ WF_vars(RelayOriginEnd)

(***************************************************************************)
(* Claims about relayed requests (checked under RelaySpec).                *)
(***************************************************************************)
Relaying == relay.st = "open"

\* C21: in a relayed plain request, once either end is gone (the client
\* aborts, the outbound request fails or ends) the other half of the pair is
\* eventually closed too: the outbound request after the client, the
\* client's response after the outbound request.
C21_PairedHalvesClosed ==
    /\ (Relaying /\ relay.clientGone) ~> (Relaying /\ relay.outbound = "closed")
    /\ (Relaying /\ relay.outbound = "closed")
          ~> (Relaying /\ (relay.resEnded \/ relay.clientGone))

\* the case of C21: the client aborted before its request was complete and
\* the outbound request is open
C21_Witness ==
    /\ Relaying
    /\ relay.req.body # ""
    /\ relay.clientGone
    /\ ~relay.reqEnded
    /\ relay.outbound = "open"

\* C22: every error of the outbound request, before or after the origin's
\* response header has been forwarded, gives the client a 500 response and
\* ends the exchange, and a request is given one outbound attempt at most.
C22_OriginErrorGives500 ==
    Relaying =>
        /\ relay.attempts <= 1
        /\ (relay.failed =>
              /\ \E i \in DOMAIN relay.toClient : relay.toClient[i].statusCode = 500
              /\ relay.resEnded)

\* the case of C22: the outbound request failed after the origin's header
\* and a part of its body had been forwarded
C22_Witness ==
    /\ Relaying
    /\ relay.failed
    /\ relay.toClient # <<>>
    /\ relay.toClient[1] = ResponseHead(200)
    /\ relay.originSent # <<>>

\* an error of the outbound request before any header was forwarded is
\* answered with 500 and ends the response
FailureBeforeHeaderGives500 ==
    (Relaying /\ relay.failed /\ ~relay.uncaught) =>
        /\ relay.toClient = <<ProxyErrorResponse>>
        /\ relay.resEnded

\* the same for a passthrough tunnel, where both sockets have an 'error'
\* listener: the outbound socket is ended with the step in which the client
\* socket fails, and the client socket with the step in which the outbound
\* socket fails (a connection that cannot be opened included)
TunnelHalvesClosedTogether ==
    Passthrough =>
        /\ (tunnel.clientGone => tunnel.originEnded)
        /\ (tunnel.st = "closed" /\ ~tunnel.clientGone => tunnel.clientEnded)

(***************************************************************************)
(* The proxy driven directly: start() and stop() calls, each awaited       *)
(* before the next is made.                                                *)
(***************************************************************************)
NoCallPending == PendingCalls(pcalls) = {}

LifeStart ==
    /\ NoCallPending
    /\ Len(pcalls) < MaxCalls
    /\ \E c \in Catalogs : start(c)
    /\ UNCHANGED <<now, reqs, served, relay, tunnel, mgrVars>>

LifeStop ==
    /\ NoCallPending
    /\ Len(pcalls) < MaxCalls
    /\ stop
    /\ UNCHANGED <<now, reqs, served, relay, tunnel, mgrVars>>

LifeListen ==
    /\ \E i \in DOMAIN pcalls : ListenCallback(i)
    /\ UNCHANGED <<now, reqs, served, relay, tunnel, mgrVars>>

LifeError ==
    /\ \E i \in DOMAIN pcalls : ErrorCallback(i)
    /\ UNCHANGED <<now, reqs, served, relay, tunnel, mgrVars>>

LifeClose ==
    /\ \E i \in DOMAIN pcalls : CloseCallback(i)
    /\ UNCHANGED <<now, reqs, served, relay, tunnel, mgrVars>>

LifeConnOpen ==
    /\ Accepting
    /\ \E id \in DOMAIN servers : ConnOpen(id)
    /\ UNCHANGED <<now, reqs, served, relay, tunnel, mgrVars>>

LifeConnClose ==
    /\ \E id \in DOMAIN servers : ConnClose(id)
    /\ UNCHANGED <<now, reqs, served, relay, tunnel, mgrVars>>

LifePortToggle == PortToggle /\ UNCHANGED <<now, reqs, served, relay, tunnel, mgrVars>>

LifeNext ==
    \/ LifeStart
    \/ LifeStop
    \/ LifeListen
    \/ LifeError
    \/ LifeClose
    \/ LifeConnOpen
    \/ LifeConnClose
    \/ LifePortToggle

LifeSpec == Init /\ [][LifeNext]_vars

(***************************************************************************)
(* Claims about start and stop (checked under LifeSpec).                   *)
(***************************************************************************)
EnvSet == env.HTTP_PROXY = ProxyUrl /\ env.HTTPS_PROXY = ProxyUrl
EnvUnset == env.HTTP_PROXY = Unset /\ env.HTTPS_PROXY = Unset

StartsBefore(i) == {j \in 1..(i - 1) : pcalls[j].op = "start"}

\* call i is a stop() made before any start(), or the second of two
\* successive stop() calls after the only start()
StopOnStopped(i) ==
    /\ pcalls[i].op = "stop"
    /\ \/ StartsBefore(i) = {}
       \/ /\ Cardinality(StartsBefore(i)) = 1
          /\ pcalls[i - 1].op = "stop"

\* the state invariant of C8
StopOnStoppedAcks ==
    \A i \in DOMAIN pcalls :
        StopOnStopped(i) =>
            /\ pcalls[i].st = "acked"
            /\ pcalls[i].srv = 0
            /\ (i = Len(pcalls) => ~SomeListening /\ server = 0 /\ EnvUnset)

\* C8: stop() before any start(), or a second time in succession after a
\* start(), does not throw, acks, changes nothing, and leaves no listening
\* socket of the proxy.
C8_StopIsIdempotent ==
    /\ []StopOnStoppedAcks
    /\ [][(LifeStop /\ server = 0) =>
            /\ UNCHANGED <<server, servers, config, env>>
            /\ pcalls'[Len(pcalls')].st = "acked"]_vars

\* the case of C8: start(), stop() and a second stop() have all completed
C8_Witness ==
    /\ Len(pcalls) = 3
    /\ pcalls[1] = [op |-> "start", st |-> "acked", srv |-> 1]
    /\ pcalls[2] = [op |-> "stop", st |-> "acked", srv |-> 1]
    /\ pcalls[3] = [op |-> "stop", st |-> "acked", srv |-> 0]

\* C9: when start() acks both variables hold http://localhost:<port>, when
\* a following stop() acks both are unset, and in every state reached by
\* awaited start/stop calls they are set exactly when a socket of the proxy
\* is listening.
C9_EnvSetIffListening ==
    NoCallPending =>
        /\ (SomeListening => EnvSet)
        /\ (~SomeListening => EnvUnset)
        /\ (pcalls # <<>> /\ pcalls[Len(pcalls)] = [op |-> "start", st |-> "acked",
                                                     srv |-> server] => EnvSet)
        /\ (pcalls # <<>> /\ pcalls[Len(pcalls)].op = "stop" => EnvUnset)

\* the case of C9: a start() acked, a second start() failed and a stop()
\* acked, leaving the first server listening
C9_Witness ==
    /\ NoCallPending
    /\ Len(pcalls) = 3
    /\ pcalls[1].st = "acked" /\ pcalls[1].op = "start"
    /\ pcalls[2].st = "rejected"
    /\ pcalls[3].op = "stop"
    /\ Listening(1)
    /\ EnvUnset

(***************************************************************************)
(* ConfigValidator.validate and MockManager.                               *)
(***************************************************************************)
SUPPORTED_SERVICES ==
    {"s3", "dynamodb", "lambda", "sqs", "sns", "ec2", "rds", "cloudformation",
     "iam", "sts", "ssm", "secretsmanager", "kms", "cloudwatch", "route53",
     "elb", "autoscaling", "elasticache", "redshift", "athena", "glue",
     "stepfunctions", "eventbridge", "apigateway"}

Digits == {"0", "1", "2", "3", "4", "5", "6", "7", "8", "9"}

\* /^\d+\.\d+$/.test(version)
VersionFormatOk(v) ==
    \E i \in 2..(Len(v) - 1) :
        /\ v[i] = "."
        /\ \A j \in DOMAIN v : j # i => v[j] \in Digits

\* validateS3Config reports an object without content
S3ConfigOk(sc) ==
    "buckets" \in DOMAIN sc =>
        \A b \in DOMAIN sc.buckets :
            "objects" \in DOMAIN sc.buckets[b] =>
                \A k \in DOMAIN sc.buckets[b].objects :
                    "content" \in DOMAIN sc.buckets[b].objects[k]

\* validateServices reports every key outside SUPPORTED_SERVICES
ServicesOk(services) ==
    \A name \in DOMAIN services :
        /\ name \in SUPPORTED_SERVICES
        /\ (name = "s3" => S3ConfigOk(services[name]))

\* ConfigValidator.validate(config).valid, for a parsed JSON object
Validate(cfg) ==
    /\ "version" \in DOMAIN cfg
    /\ "services" \in DOMAIN cfg
    /\ VersionFormatOk(cfg.version)
    /\ ServicesOk(cfg.services)

\* the template createTemplateConfig writes
TemplateConfig ==
    [version |-> sVersion10,
     services |->
        [s3 |-> [buckets |-> (<<"e">> :> [objects |->
                    (<<"t">> :> [content |-> "Hello, World!",
                                 metadata |-> [ContentType |-> "text/plain"]])])],
         dynamodb |-> [tables |-> [Users |-> [items |-> <<"user1">>]]]]]

\* files that parse but fail validation
InvalidUnsupportedService ==
    [version |-> sVersion10, services |-> [s3 |-> [buckets |-> <<>>], foo |-> [x |-> 1]]]
InvalidNoVersion == [services |-> CatalogA.services]
InvalidVersionFormat == [version |-> <<"1">>, services |-> CatalogA.services]
InvalidObjectWithoutContent ==
    [version |-> sVersion10,
     services |-> [s3 |-> [buckets |-> (sB :> [objects |->
                    (sK :> [metadata |-> [ContentType |-> "text/plain"]])])]]]

ParsedFiles ==
    {CatalogA, CatalogB, InvalidUnsupportedService, InvalidNoVersion,
     InvalidVersionFormat, InvalidObjectWithoutContent}

Missing == [st |-> "missing"]
Unparsable == [st |-> "unparsable"]
Parsed(json) == [st |-> "parsed", json |-> json]

FileStates == {Missing, Unparsable} \cup {Parsed(j) : j \in ParsedFiles}

\* mutant of LoadedConfig: the parsed file is adopted without validation
LoadedConfigUnvalidated ==
    IF workspace /\ file.st = "parsed" THEN file.json ELSE mgrConfig

\* this.config after loadConfig
LoadedConfig ==
    IF workspace /\ file.st = "parsed" /\ Validate(file.json) THEN file.json ELSE mgrConfig

\* the file after loadConfig: a missing file is replaced by the template
FileAfterLoad ==
    IF workspace /\ file.st = "missing" THEN Parsed(TemplateConfig) ELSE file

NoManagerCallPending == PendingCalls(mcalls) = {}

\* enable() up to its first await: the test of this.enabled and loadConfig
EnableBegin ==
    /\ Len(mcalls) < MaxCalls
    /\ IF enabled
       THEN /\ mcalls' = Append(mcalls, [op |-> "enable", st |-> "done", pc |-> "return",
                                         pcall |-> 0])
            /\ UNCHANGED <<mgrConfig, file>>
       ELSE /\ mgrConfig' = LoadedConfig
            /\ file' = FileAfterLoad
            /\ mcalls' = Append(mcalls, [op |-> "enable", st |-> "pending",
                                         pc |-> "startProxy", pcall |-> 0])
    /\ UNCHANGED <<enabled, workspace, proxyVars, now, reqs, served, relay, tunnel>>

\* enable() called when every earlier call has completed
EnableCall == NoManagerCallPending /\ EnableBegin

\* enable() at startProxy: start(this.config) when a catalog is loaded;
\* otherwise nothing is started and enable() completes
EnableStartProxy(i) ==
    /\ i \in PendingCalls(mcalls)
    /\ mcalls[i].op = "enable"
    /\ mcalls[i].pc = "startProxy"
    /\ IF mgrConfig # NullConfig
       THEN /\ start(mgrConfig)
            /\ mcalls' = [mcalls EXCEPT ![i].pc = "awaitStart",
                                        ![i].pcall = Len(pcalls) + 1]
            /\ UNCHANGED enabled
       ELSE /\ enabled' = TRUE
            /\ mcalls' = [mcalls EXCEPT ![i].st = "done", ![i].pc = "return"]
            /\ UNCHANGED proxyVars
    /\ UNCHANGED <<mgrConfig, file, workspace, now, reqs, served, relay, tunnel>>

\* mutant of EnableFinishBody: this.enabled is not set
EnableFinishBodyForgetsFlag(i) ==
    IF pcalls[mcalls[i].pcall].st = "acked"
    THEN /\ UNCHANGED enabled
         /\ mcalls' = [mcalls EXCEPT ![i].st = "done", ![i].pc = "return"]
    ELSE /\ UNCHANGED enabled
         /\ mcalls' = [mcalls EXCEPT ![i].st = "threw", ![i].pc = "return"]

\* enable() after `await this.startProxy()`: the flag is set when start()
\* acked, and enable() rejects when start() rejected
EnableFinishBody(i) ==
    IF pcalls[mcalls[i].pcall].st = "acked"
    THEN /\ enabled' = TRUE
         /\ mcalls' = [mcalls EXCEPT ![i].st = "done", ![i].pc = "return"]
    ELSE /\ UNCHANGED enabled
         /\ mcalls' = [mcalls EXCEPT ![i].st = "threw", ![i].pc = "return"]

EnableFinish(i) ==
    /\ i \in PendingCalls(mcalls)
    /\ mcalls[i].op = "enable"
    /\ mcalls[i].pc = "awaitStart"
    /\ pcalls[mcalls[i].pcall].st \in {"acked", "rejected"}
    /\ EnableFinishBody(i)
    /\ UNCHANGED <<mgrConfig, file, workspace, proxyVars, now, reqs, served, relay, tunnel>>

\* disable() up to its await: the test of this.enabled and stopProxy
DisableBegin ==
    /\ Len(mcalls) < MaxCalls
    /\ IF ~enabled
       THEN /\ mcalls' = Append(mcalls, [op |-> "disable", st |-> "done", pc |-> "return",
                                         pcall |-> 0])
            /\ UNCHANGED proxyVars
       ELSE /\ stop
            /\ mcalls' = Append(mcalls, [op |-> "disable", st |-> "pending",
                                         pc |-> "awaitStop", pcall |-> Len(pcalls) + 1])
    /\ UNCHANGED <<mgrConfig, enabled, file, workspace, now, reqs, served, relay, tunnel>>

\* disable() called when every earlier call has completed
DisableCall == NoManagerCallPending /\ DisableBegin

\* disable() after `await this.stopProxy()`
DisableFinish(i) ==
    /\ i \in PendingCalls(mcalls)
    /\ mcalls[i].op = "disable"
    /\ pcalls[mcalls[i].pcall].st = "acked"
    /\ mgrConfig' = NullConfig
    /\ enabled' = FALSE
    /\ mcalls' = [mcalls EXCEPT ![i].st = "done", ![i].pc = "return"]
    /\ UNCHANGED <<file, workspace, proxyVars, now, reqs, served, relay, tunnel>>

\* reloadConfig(): loadConfig, then updateConfig when a catalog is loaded
reloadConfig ==
    /\ mgrConfig' = LoadedConfig
    /\ file' = FileAfterLoad
    /\ IF LoadedConfig # NullConfig
       THEN updateConfig(LoadedConfig)
       ELSE UNCHANGED proxyVars
    /\ mcalls' = Append(mcalls, [op |-> "reload", st |-> "done", pc |-> "return",
                                 pcall |-> 0])

ReloadCall ==
    /\ NoManagerCallPending
    /\ Len(mcalls) < MaxCalls
    /\ reloadConfig
    /\ UNCHANGED <<enabled, workspace, now, reqs, served, relay, tunnel>>

\* the user or a tool rewrites or deletes the configuration file
FileChange ==
    /\ \E f \in FileStates : file' = f
    /\ UNCHANGED <<mgrConfig, enabled, workspace, mcalls, proxyVars, now, reqs, served, relay, tunnel>>

\* a workspace folder is opened or closed
WorkspaceChange ==
    /\ workspace' = ~workspace
    /\ UNCHANGED <<mgrConfig, enabled, file, mcalls, proxyVars, now, reqs, served, relay, tunnel>>

MgrEnableStartProxy == \E i \in DOMAIN mcalls : EnableStartProxy(i)
MgrEnableFinish == \E i \in DOMAIN mcalls : EnableFinish(i)
MgrDisableFinish == \E i \in DOMAIN mcalls : DisableFinish(i)

MgrListen ==
    /\ \E i \in DOMAIN pcalls : ListenCallback(i)
    /\ UNCHANGED <<now, reqs, served, relay, tunnel, mgrVars>>

MgrError ==
    /\ \E i \in DOMAIN pcalls : ErrorCallback(i)
    /\ UNCHANGED <<now, reqs, served, relay, tunnel, mgrVars>>

MgrClose ==
    /\ \E i \in DOMAIN pcalls : CloseCallback(i)
    /\ UNCHANGED <<now, reqs, served, relay, tunnel, mgrVars>>

MgrPortToggle == PortToggle /\ UNCHANGED <<now, reqs, served, relay, tunnel, mgrVars>>

ManagerNext ==
    \/ EnableCall
    \/ MgrEnableStartProxy
    \/ MgrEnableFinish
    \/ DisableCall
    \/ MgrDisableFinish
    \/ ReloadCall
    \/ FileChange
    \/ WorkspaceChange
    \/ MgrListen
    \/ MgrError
    \/ MgrClose
    \/ MgrPortToggle

ManagerSpec == Init /\ [][ManagerNext]_vars

(***************************************************************************)
(* Claims about MockManager (checked under ManagerSpec).                   *)
(***************************************************************************)
\* loadConfig would adopt the file as it is now
FileLoadable == workspace /\ file.st = "parsed" /\ Validate(file.json)

\* the state invariant of C7
ServedCatalogValidated ==
    config # NullConfig =>
        /\ Validate(config)
        /\ DOMAIN config.services \subseteq SUPPORTED_SERVICES

\* C7: whatever enable(), reloadConfig() and disable() calls are made over
\* whatever states of the configuration file, the catalog the proxy serves
\* from passed ConfigValidator.validate (all its service keys are
\* supported), and a reloadConfig() that finds the file missing, unparsable
\* or invalid completes without throwing and leaves the proxy's catalog
\* unchanged.
C7_ServedCatalogIsValidated ==
    /\ []ServedCatalogValidated
    /\ [][(ReloadCall /\ ~FileLoadable) =>
            /\ config' = config
            /\ mcalls'[Len(mcalls')].st = "done"]_vars

\* the case of C7: the proxy is serving a catalog, and the last call was a
\* reloadConfig() that left a file on disk that fails validation
C7_Witness ==
    /\ Accepting
    /\ config = CatalogA
    /\ mcalls # <<>>
    /\ mcalls[Len(mcalls)].op = "reload"
    /\ file = Parsed(InvalidUnsupportedService)
    /\ \E i \in DOMAIN mcalls : mcalls[i].op = "disable" /\ mcalls[i].pcall # 0

NoStartFailed == \A id \in DOMAIN servers : servers[id].st # "failed"

\* the completed enable() and disable() calls
Toggles == {i \in DOMAIN mcalls : mcalls[i].op \in {"enable", "disable"} /\ mcalls[i].st = "done"}

LastToggleIsEnable ==
    /\ Toggles # {}
    /\ mcalls[CHOOSE i \in Toggles : \A j \in Toggles : j <= i].op = "enable"

\* the state invariant of C10
EnabledFollowsLastCall ==
    NoStartFailed =>
        /\ \A i \in DOMAIN mcalls : mcalls[i].st # "threw"
        /\ (enabled <=> LastToggleIsEnable)

\* C10: the manager starts disabled, and over awaited enable() and
\* disable() calls with the proxy port free no call throws, enable() on an
\* enabled manager and disable() on a disabled one change nothing, and
\* isEnabled() is true exactly when the last completed call was enable().
C10_EnableDisableToggle ==
    /\ []EnabledFollowsLastCall
    /\ [][((EnableCall /\ enabled) \/ (DisableCall /\ ~enabled)) =>
            /\ UNCHANGED <<mgrConfig, enabled, file, workspace, proxyVars>>
            /\ mcalls'[Len(mcalls')].st = "done"]_vars

\* the case of C10: enable(), enable(), disable(), disable() have completed,
\* the first enable() having started the proxy
C10_Witness ==
    /\ Len(mcalls) = 4
    /\ mcalls[1].op = "enable" /\ mcalls[1].pcall # 0
    /\ mcalls[2].op = "enable"
    /\ mcalls[3].op = "disable" /\ mcalls[3].pcall # 0
    /\ mcalls[4].op = "disable"
    /\ \A i \in DOMAIN mcalls : mcalls[i].st = "done"
    /\ ~enabled

\* the last call made on the manager
LastCall == mcalls[Len(mcalls)]

\* C23: whenever the manager is enabled and no call is pending, a proxy
\* server is listening and the manager holds a catalog, whatever loadConfig
\* found (no workspace folder, no file, an unparsable file, an invalid file,
\* a valid file) and also after a later reloadConfig().
C23_EnabledImpliesListening ==
    (NoManagerCallPending /\ enabled) =>
        /\ SomeListening
        /\ mgrConfig # NullConfig

\* the case of C23: enable() completed without a catalog and without
\* starting a server, and a reloadConfig() that found a valid file has since
\* loaded a catalog
C23_Witness ==
    /\ Len(mcalls) = 2
    /\ mcalls[1].op = "enable" /\ mcalls[1].st = "done" /\ mcalls[1].pcall = 0
    /\ LastCall.op = "reload" /\ LastCall.st = "done"
    /\ enabled
    /\ mgrConfig # NullConfig
    /\ servers = <<>>

\* an enable() that loaded a catalog leaves the manager enabled only with the
\* server it started listening
EnabledWithCatalogStarted ==
    \A i \in DOMAIN mcalls :
        (mcalls[i].op = "enable" /\ mcalls[i].st = "done" /\ mcalls[i].pcall # 0)
            => pcalls[mcalls[i].pcall].st = "acked"

(***************************************************************************)
(* The manager with a valid configuration file and the proxy port free,    *)
(* its enable() and disable() called from independent handlers (the        *)
(* auto-enable of activate, the toggle command, the watcher's              *)
(* onDidDelete): a call may be made while an earlier one is awaiting.      *)
(***************************************************************************)
ValidFiles == {Parsed(j) : j \in {k \in ParsedFiles : Validate(k)}}

OverlapInit ==
    /\ InitProxy
    /\ InitManager
    /\ file \in ValidFiles
    /\ workspace = TRUE
    /\ now = 0
    /\ reqs = [r \in 1..MaxReqs |-> Idle]
    /\ served = <<>>
    /\ tunnel = Idle
    /\ relay = Idle

\* with a valid file loadConfig awaits nothing, so enable() runs from its
\* `await this.loadConfig()` to start() in microtasks: no handler and no
\* callback runs before it has called start()
NoEnableBeforeStart ==
    \A i \in PendingCalls(mcalls) : mcalls[i].pc # "startProxy"

OverlapEnable == NoEnableBeforeStart /\ EnableBegin
OverlapDisable == NoEnableBeforeStart /\ DisableBegin
OverlapEnableStartProxy == \E i \in DOMAIN mcalls : EnableStartProxy(i)
OverlapEnableFinish == NoEnableBeforeStart /\ MgrEnableFinish
OverlapDisableFinish == NoEnableBeforeStart /\ MgrDisableFinish
OverlapListen == NoEnableBeforeStart /\ MgrListen
OverlapError == NoEnableBeforeStart /\ MgrError
OverlapClose == NoEnableBeforeStart /\ MgrClose

OverlapNext ==
    \/ OverlapEnable
    \/ OverlapDisable
    \/ OverlapEnableStartProxy
    \/ OverlapEnableFinish
    \/ OverlapDisableFinish
    \/ OverlapListen
    \/ OverlapError
    \/ OverlapClose

OverlapSpec == OverlapInit /\ [][OverlapNext]_vars

ListeningServers == {id \in DOMAIN servers : Listening(id)}

\* C24: for overlapping enable() and disable() calls with a valid
\* configuration at most one proxy server is ever listening and, once every
\* call has completed, a server is listening exactly when isEnabled() is
\* true, so that no listening server is left that disable() cannot close.
C24_OneServerIffEnabled ==
    /\ Cardinality(ListeningServers) <= 1
    /\ NoManagerCallPending => (SomeListening <=> enabled)

\* the case of C24: a second enable() was made while the first awaited
\* start(); both started a server, the second failed on the port the first
\* holds; a disable() has completed since, and the first server is listening
C24_Witness ==
    /\ NoManagerCallPending
    /\ Len(mcalls) = 3
    /\ mcalls[1].op = "enable" /\ mcalls[1].st = "done" /\ mcalls[1].pcall # 0
    /\ mcalls[2].op = "enable" /\ mcalls[2].st = "threw" /\ mcalls[2].pcall # 0
    /\ mcalls[3].op = "disable" /\ mcalls[3].st = "done"
    /\ ~enabled
    /\ server = 0
    /\ SomeListening

(***************************************************************************)
(* stop() with a tunnel open.  The socket of a CONNECT is a connection of  *)
(* the server: the callback of server.close() runs once the listening      *)
(* socket and every connection are closed.                                 *)
(***************************************************************************)
ShutdownHosts == {s3Host \o sPort443, exampleHost \o sPort443}
ShutdownChunks == {sGET \o sCRLF, sCRLF}

\* the client socket of the tunnel is open: the proxy has not ended it and
\* the client has not gone
TunnelSocketOpen ==
    /\ tunnel.st \in {"intercepted", "connecting", "spliced"}
    /\ ~tunnel.clientEnded
    /\ ~tunnel.clientGone

ShutdownStart ==
    /\ pcalls = <<>>
    /\ \E c \in Catalogs : start(c)
    /\ UNCHANGED <<now, reqs, served, tunnel, relay, mgrVars>>

ShutdownListen ==
    /\ \E i \in DOMAIN pcalls : ListenCallback(i)
    /\ UNCHANGED <<now, reqs, served, tunnel, relay, mgrVars>>

ShutdownConnect ==
    /\ \E h \in ShutdownHosts : handleConnect(h, <<>>)
    /\ UNCHANGED <<proxyVars, now, reqs, served, relay, mgrVars>>

ShutdownClientData ==
    /\ \E chunk \in ShutdownChunks : ClientData(chunk)
    /\ UNCHANGED <<proxyVars, now, reqs, served, relay, mgrVars>>

ShutdownTimerFire == TimerFire /\ UNCHANGED <<proxyVars, now, reqs, served, relay, mgrVars>>

ShutdownOriginConnected ==
    OriginConnected /\ UNCHANGED <<proxyVars, now, reqs, served, relay, mgrVars>>

ShutdownOriginError == OriginError /\ UNCHANGED <<proxyVars, now, reqs, served, relay, mgrVars>>

ShutdownClientError == ClientError /\ UNCHANGED <<proxyVars, now, reqs, served, relay, mgrVars>>

ShutdownStop ==
    /\ NoCallPending
    /\ pcalls # <<>>
    /\ Len(pcalls) < MaxCalls
    /\ stop
    /\ UNCHANGED <<now, reqs, served, tunnel, relay, mgrVars>>

ShutdownClose ==
    /\ ~TunnelSocketOpen
    /\ \E i \in DOMAIN pcalls : CloseCallback(i)
    /\ UNCHANGED <<now, reqs, served, tunnel, relay, mgrVars>>

ShutdownNext ==
    \/ ShutdownStart
    \/ ShutdownListen
    \/ ShutdownConnect
    \/ ShutdownClientData
    \/ ShutdownTimerFire
    \/ ShutdownOriginConnected
    \/ ShutdownOriginError
    \/ ShutdownClientError
    \/ ShutdownStop
    \/ ShutdownClose

\* the event loop runs a timer that is due and a close callback that is due
ShutdownSpec ==
    /\ Init
    /\ [][ShutdownNext]_vars
    /\ WF_vars(ShutdownTimerFire)
    /\ WF_vars(ShutdownClose)

StopPending(i) == i \in DOMAIN pcalls /\ pcalls[i].op = "stop" /\ pcalls[i].st = "pending"
StopAcked(i) == i \in DOMAIN pcalls /\ pcalls[i].op = "stop" /\ pcalls[i].st = "acked"

\* C25: every stop() eventually acks, and the proxy variables are unset
\* when it does, whatever tunnel is open when it is called.
C25_StopEventuallyAcks ==
    /\ \A i \in 1..MaxCalls : StopPending(i) ~> StopAcked(i)
    /\ [][\A i \in 1..MaxCalls : (StopPending(i) /\ StopAcked(i)') => EnvUnset']_vars

\* the case of C25: stop() is pending on a server that has stopped listening
\* while an intercepted tunnel waits for the rest of a request head
C25_Witness ==
    /\ \E i \in 1..MaxCalls : StopPending(i)
    /\ ~SomeListening
    /\ Intercepted
    /\ tunnel.expecting
    /\ tunnel.sent # <<>>
    /\ TunnelSocketOpen

\* a stop() called with no tunnel open, or whose tunnel has been closed
\* since, acks
StopAcksWithoutTunnel ==
    \A i \in 1..MaxCalls : (StopPending(i) /\ ~TunnelSocketOpen) ~> StopAcked(i)

(***************************************************************************)
(* The generators run on catalogs whose service entries lack the nested    *)
(* fields the generators read.  Such catalogs pass ConfigValidator, which  *)
(* checks a nested field only when it is present.                          *)
(***************************************************************************)
\* no buckets, no tables, no functions
CatalogNoCollections ==
    [version |-> sVersion10,
     services |->
        [s3 |-> [region |-> "us-east-1"],
         dynamodb |-> [region |-> "us-east-1"],
         lambda |-> [region |-> "us-east-1"]]]

\* a bucket without objects, a table without items, a function without a
\* response
CatalogNoLeaves ==
    [version |-> sVersion10,
     services |->
        [s3 |-> [buckets |-> (sHttpColon :> [region |-> "us-east-1"])],
         dynamodb |-> [tables |-> [Users |-> [keySchema |-> "id"]]],
         lambda |-> [functions |-> [myFunction |-> [timeout |-> "3"]]]]]

SparseCatalogs == {CatalogNoCollections, CatalogNoLeaves}

SparseStart ==
    /\ pcalls = <<>>
    /\ \E c \in SparseCatalogs \cup {CatalogA} : start(c)
    /\ UNCHANGED <<now, reqs, served, relay, tunnel, mgrVars>>

SparseListen ==
    /\ \E i \in DOMAIN pcalls : ListenCallback(i)
    /\ UNCHANGED <<now, reqs, served, relay, tunnel, mgrVars>>

SparseTick == Tick /\ UNCHANGED <<proxyVars, reqs, served, relay, tunnel, mgrVars>>

SparseHandle ==
    /\ \E r \in 1..MaxReqs, req \in Requests \cup LambdaRequests : handleRequest(r, req)
    /\ UNCHANGED <<proxyVars, now, served, relay, tunnel, mgrVars>>

SparseResume ==
    /\ \E r \in 1..MaxReqs : ResumeRequest(r)
    /\ UNCHANGED <<proxyVars, now, served, relay, tunnel, mgrVars>>

SparseNext ==
    \/ SparseStart
    \/ SparseListen
    \/ SparseTick
    \/ SparseHandle
    \/ SparseResume

SparseSpec == Init /\ [][SparseNext]_vars

\* a generator has been run for request r on a catalog that lacks the nested
\* fields
GeneratedFromSparse(r) ==
    /\ reqs[r].st \in {"awaiting", "done"}
    /\ reqs[r].mock # None
    /\ reqs[r].snap \in SparseCatalogs

ServiceOf(r) == identifyService(UrlHostname(reqs[r].req.url))

\* the statement of C28 as written: every such response is of the 4xx class
C28_MissingFieldsGive404 ==
    \A r \in 1..MaxReqs :
        GeneratedFromSparse(r) => reqs[r].mock[1].statusCode \in 400..499

\* C28: on a catalog entry that lacks a nested field (no buckets, no
\* objects, no tables, no items, no functions, no response) no generator
\* throws; an S3 GET and a Lambda Invoke are answered 404, an S3 PUT 200 with
\* an empty body, a DynamoDB GetItem 200 with an empty Item, a PutItem 200 and
\* any other DynamoDB operation 400.
C28_MissingFieldsNeverThrow ==
    \A r \in 1..MaxReqs :
        GeneratedFromSparse(r) =>
            LET m == reqs[r].mock[1]
                operation == extractOperation(reqs[r].req)
            IN  /\ ServiceOf(r) = "s3" =>
                      IF reqs[r].req.method = sPUT
                      THEN m.statusCode = 200 /\ m.body = StrBody("")
                      ELSE m.statusCode = 404
                /\ ServiceOf(r) = "dynamodb" =>
                      IF Includes(operation, sGetItem)
                      THEN m.statusCode = 200 /\ m.body = ObjBody("Item", "{}")
                      ELSE IF Includes(operation, sPutItem)
                      THEN m.statusCode = 200
                      ELSE m.statusCode = 400
                /\ ServiceOf(r) = "lambda" => m.statusCode = 404
                /\ (reqs[r].st = "done" => reqs[r].out = sendMockResponse(m))

\* the case of C28: GetItem on a table Users without items was answered 200
\* with an empty Item
C28_Witness ==
    \E r \in 1..MaxReqs :
        /\ GeneratedFromSparse(r)
        /\ reqs[r].snap = CatalogNoLeaves
        /\ reqs[r].st = "done"
        /\ ServiceOf(r) = "dynamodb"
        /\ Includes(extractOperation(reqs[r].req), sGetItem)
        /\ reqs[r].out.statusCode = 200
        /\ reqs[r].out.body.k = "Item"

====
